---- MODULE Spec2Model ----
(***************************************************************************)
(* xiaoxuan-assembly: the x86-64 instruction encoder                       *)
(* (crates/encoder-x86-64).                                                *)
(*                                                                         *)
(* The encoder's entry point is encode(instruction, current_address,       *)
(* lable_address_list) -> Vec<u8> (encode.rs:41-52).  In this revision its *)
(* body is the single statement todo!(), which panics with "not yet        *)
(* implemented" on every call; the function returns Vec<u8>, so it has no  *)
(* error value to return.  The byte layouts the encoder is meant to        *)
(* produce are written down as comments in the test functions of           *)
(* encode.rs (their bodies are "// todo").                                 *)
(*                                                                         *)
(* The model is the one call of encode() by a caller (a test, or the code  *)
(* generator): the caller holds an instruction, calls encode(), and the    *)
(* call either returns bytes or panics.                                    *)
(*                                                                         *)
(* The second part is the parser (crates/parser): its entry points parse   *)
(* and parse_module_node (parser.rs:19-27) and the instruction table they  *)
(* look instructions up in, the static INSTRUCTION_MAP guarded by the Once *)
(* INIT (native_assembly_instruction.rs:11-15, 132-136, 937).              *)
(***************************************************************************)
EXTENDS Integers, Sequences, FiniteSets, TLC

VARIABLES
    instruction,         \* the &Instruction argument of encode()
    current_address,     \* the current_address argument of encode()
    lable_address_list,  \* the lable_address_list argument of encode()
    pc,                  \* "ready": before the call; then its outcome, "returned" or
                         \* "panicked" ("failed" would be a returned error value, which
                         \* the signature of encode() does not have)
    output,              \* the Vec<u8> encode() returned (<< >> unless pc = "returned")
    error,               \* the error value handed to the caller: always "none"
    previous,            \* the caller's previous call and its outcome
    calls,               \* the number of calls the caller has started
    history,             \* the calls that have ended, in order: arguments and outcome
    INIT,                \* static INIT: Once (native_assembly_instruction.rs:11)
    INSTRUCTION_MAP,     \* static mut INSTRUCTION_MAP (native_assembly_instruction.rs:15)
    thread,              \* per thread: its place in the parser and its locals
    runs,                \* how often init_instruction_map_internal has been entered
    callee,              \* the function of parser.rs the caller calls on the tokens
    tokens,              \* the tokens the caller's PeekableIterator<Token> yields
    result,              \* what the call returned (or that it panicked)
    data_description,    \* CodeGenerator::data_description (codegen.rs:36)
    module,              \* CodeGenerator::module: the data it has declared and defined
    returned,            \* what the last define_*_data call returned
    defines,             \* the number of define_*_data calls made
    debug_assertions     \* whether the build has debug assertions on (a debug build)

encoderVars == <<instruction, current_address, lable_address_list, pc, output, error,
                 previous, calls, history>>

parserVars == <<INIT, INSTRUCTION_MAP, thread, runs>>

syntaxVars == <<callee, tokens, result>>

codegenVars == <<data_description, module, returned, defines, debug_assertions>>

vars == <<instruction, current_address, lable_address_list, pc, output, error,
          previous, calls, history, INIT, INSTRUCTION_MAP, thread, runs,
          callee, tokens, result, data_description, module, returned, defines,
          debug_assertions>>

----------------------------------------------------------------------------
(* native_assembly_instruction.rs: the instruction table                   *)

\* The threads that use the parser, and the calls each of them makes.
NumThreads == 2

MaxParses == 2

Threads == 1..NumThreads

\* The rows init_instruction_map_internal adds, in its order: the name, the
\* InstructionSyntaxKind, and the Opcode or the &str the kind carries
\* (native_assembly_instruction.rs:146-935).
Table == <<
    <<"local.load64_i64", "LocalLoad", "local_load64_i64">>,
    <<"local.load64_f64", "LocalLoad", "local_load64_f64">>,
    <<"local.load64_i32_s", "LocalLoad", "local_load64_i32_s">>,
    <<"local.load64_i32_u", "LocalLoad", "local_load64_i32_u">>,
    <<"local.load64_i16_s", "LocalLoad", "local_load64_i16_s">>,
    <<"local.load64_i16_u", "LocalLoad", "local_load64_i16_u">>,
    <<"local.load64_i8_s", "LocalLoad", "local_load64_i8_s">>,
    <<"local.load64_i8_u", "LocalLoad", "local_load64_i8_u">>,
    <<"local.load32_i32", "LocalLoad", "local_load32_i32">>,
    <<"local.load32_f32", "LocalLoad", "local_load32_f32">>,
    <<"local.load32_i16_s", "LocalLoad", "local_load32_i16_s">>,
    <<"local.load32_i16_u", "LocalLoad", "local_load32_i16_u">>,
    <<"local.load32_i8_s", "LocalLoad", "local_load32_i8_s">>,
    <<"local.load32_i8_u", "LocalLoad", "local_load32_i8_u">>,
    <<"local.store64", "LocalStore", "local_store64">>,
    <<"local.store32", "LocalStore", "local_store32">>,
    <<"local.store16", "LocalStore", "local_store16">>,
    <<"local.store8", "LocalStore", "local_store8">>,
    <<"data.load64_i64", "DataLoad", "data_load64_i64">>,
    <<"data.load64_f64", "DataLoad", "data_load64_f64">>,
    <<"data.load64_i32_s", "DataLoad", "data_load64_i32_s">>,
    <<"data.load64_i32_u", "DataLoad", "data_load64_i32_u">>,
    <<"data.load64_i16_s", "DataLoad", "data_load64_i16_s">>,
    <<"data.load64_i16_u", "DataLoad", "data_load64_i16_u">>,
    <<"data.load64_i8_s", "DataLoad", "data_load64_i8_s">>,
    <<"data.load64_i8_u", "DataLoad", "data_load64_i8_u">>,
    <<"data.load32_i32", "DataLoad", "data_load32_i32">>,
    <<"data.load32_f32", "DataLoad", "data_load32_f32">>,
    <<"data.load32_i16_s", "DataLoad", "data_load32_i16_s">>,
    <<"data.load32_i16_u", "DataLoad", "data_load32_i16_u">>,
    <<"data.load32_i8_s", "DataLoad", "data_load32_i8_s">>,
    <<"data.load32_i8_u", "DataLoad", "data_load32_i8_u">>,
    <<"data.store64", "DataStore", "data_store64">>,
    <<"data.store32", "DataStore", "data_store32">>,
    <<"data.store16", "DataStore", "data_store16">>,
    <<"data.store8", "DataStore", "data_store8">>,
    <<"memory.load64_i64", "MemoryLoad", "memory_load64_i64">>,
    <<"memory.load64_f64", "MemoryLoad", "memory_load64_f64">>,
    <<"memory.load64_i32_s", "MemoryLoad", "memory_load64_i32_s">>,
    <<"memory.load64_i32_u", "MemoryLoad", "memory_load64_i32_u">>,
    <<"memory.load64_i16_s", "MemoryLoad", "memory_load64_i16_s">>,
    <<"memory.load64_i16_u", "MemoryLoad", "memory_load64_i16_u">>,
    <<"memory.load64_i8_s", "MemoryLoad", "memory_load64_i8_s">>,
    <<"memory.load64_i8_u", "MemoryLoad", "memory_load64_i8_u">>,
    <<"memory.load32_i32", "MemoryLoad", "memory_load32_i32">>,
    <<"memory.load32_f32", "MemoryLoad", "memory_load32_f32">>,
    <<"memory.load32_i16_s", "MemoryLoad", "memory_load32_i16_s">>,
    <<"memory.load32_i16_u", "MemoryLoad", "memory_load32_i16_u">>,
    <<"memory.load32_i8_s", "MemoryLoad", "memory_load32_i8_s">>,
    <<"memory.load32_i8_u", "MemoryLoad", "memory_load32_i8_u">>,
    <<"memory.store64", "MemoryStore", "memory_store64">>,
    <<"memory.store32", "MemoryStore", "memory_store32">>,
    <<"memory.store16", "MemoryStore", "memory_store16">>,
    <<"memory.store8", "MemoryStore", "memory_store8">>,
    <<"i32.truncate_i64", "UnaryOp", "i32_truncate_i64">>,
    <<"i64.extend_i32_s", "UnaryOp", "i64_extend_i32_s">>,
    <<"i64.extend_i32_u", "UnaryOp", "i64_extend_i32_u">>,
    <<"f32.demote_f64", "UnaryOp", "f32_demote_f64">>,
    <<"f64.promote_f32", "UnaryOp", "f64_promote_f32">>,
    <<"i32.convert_f32_s", "UnaryOp", "i32_convert_f32_s">>,
    <<"i32.convert_f32_u", "UnaryOp", "i32_convert_f32_u">>,
    <<"i32.convert_f64_s", "UnaryOp", "i32_convert_f64_s">>,
    <<"i32.convert_f64_u", "UnaryOp", "i32_convert_f64_u">>,
    <<"i64.convert_f32_s", "UnaryOp", "i64_convert_f32_s">>,
    <<"i64.convert_f32_u", "UnaryOp", "i64_convert_f32_u">>,
    <<"i64.convert_f64_s", "UnaryOp", "i64_convert_f64_s">>,
    <<"i64.convert_f64_u", "UnaryOp", "i64_convert_f64_u">>,
    <<"f32.convert_i32_s", "UnaryOp", "f32_convert_i32_s">>,
    <<"f32.convert_i32_u", "UnaryOp", "f32_convert_i32_u">>,
    <<"f32.convert_i64_s", "UnaryOp", "f32_convert_i64_s">>,
    <<"f32.convert_i64_u", "UnaryOp", "f32_convert_i64_u">>,
    <<"f64.convert_i32_s", "UnaryOp", "f64_convert_i32_s">>,
    <<"f64.convert_i32_u", "UnaryOp", "f64_convert_i32_u">>,
    <<"f64.convert_i64_s", "UnaryOp", "f64_convert_i64_s">>,
    <<"f64.convert_i64_u", "UnaryOp", "f64_convert_i64_u">>,
    <<"i32.sat_convert_f32_s", "UnaryOp", "i32_sat_convert_f32_s">>,
    <<"i32.sat_convert_f32_u", "UnaryOp", "i32_sat_convert_f32_u">>,
    <<"i32.sat_convert_f64_s", "UnaryOp", "i32_sat_convert_f64_s">>,
    <<"i32.sat_convert_f64_u", "UnaryOp", "i32_sat_convert_f64_u">>,
    <<"i64.sat_convert_f32_s", "UnaryOp", "i64_sat_convert_f32_s">>,
    <<"i64.sat_convert_f32_u", "UnaryOp", "i64_sat_convert_f32_u">>,
    <<"i64.sat_convert_f64_s", "UnaryOp", "i64_sat_convert_f64_s">>,
    <<"i64.sat_convert_f64_u", "UnaryOp", "i64_sat_convert_f64_u">>,
    <<"i32.reinterpret_f32", "UnaryOp", "i32_reinterpret_f32">>,
    <<"i64.reinterpret_f64", "UnaryOp", "i64_reinterpret_f64">>,
    <<"f32.reinterpret_i32", "UnaryOp", "f32_reinterpret_i32">>,
    <<"f64.reinterpret_i64", "UnaryOp", "f64_reinterpret_i64">>,
    <<"i32.eqz", "UnaryOp", "i32_eqz">>,
    <<"i32.nez", "UnaryOp", "i32_nez">>,
    <<"i32.eq", "BinaryOp", "i32_eq">>,
    <<"i32.ne", "BinaryOp", "i32_ne">>,
    <<"i32.lt_s", "BinaryOp", "i32_lt_s">>,
    <<"i32.lt_u", "BinaryOp", "i32_lt_u">>,
    <<"i32.gt_s", "BinaryOp", "i32_gt_s">>,
    <<"i32.gt_u", "BinaryOp", "i32_gt_u">>,
    <<"i32.le_s", "BinaryOp", "i32_le_s">>,
    <<"i32.le_u", "BinaryOp", "i32_le_u">>,
    <<"i32.ge_s", "BinaryOp", "i32_ge_s">>,
    <<"i32.ge_u", "BinaryOp", "i32_ge_u">>,
    <<"i64.eqz", "UnaryOp", "i64_eqz">>,
    <<"i64.nez", "UnaryOp", "i64_nez">>,
    <<"i64.eq", "BinaryOp", "i64_eq">>,
    <<"i64.ne", "BinaryOp", "i64_ne">>,
    <<"i64.lt_s", "BinaryOp", "i64_lt_s">>,
    <<"i64.lt_u", "BinaryOp", "i64_lt_u">>,
    <<"i64.gt_s", "BinaryOp", "i64_gt_s">>,
    <<"i64.gt_u", "BinaryOp", "i64_gt_u">>,
    <<"i64.le_s", "BinaryOp", "i64_le_s">>,
    <<"i64.le_u", "BinaryOp", "i64_le_u">>,
    <<"i64.ge_s", "BinaryOp", "i64_ge_s">>,
    <<"i64.ge_u", "BinaryOp", "i64_ge_u">>,
    <<"f32.eq", "BinaryOp", "f32_eq">>,
    <<"f32.ne", "BinaryOp", "f32_ne">>,
    <<"f32.lt", "BinaryOp", "f32_lt">>,
    <<"f32.gt", "BinaryOp", "f32_gt">>,
    <<"f32.le", "BinaryOp", "f32_le">>,
    <<"f32.ge", "BinaryOp", "f32_ge">>,
    <<"f64.eq", "BinaryOp", "f64_eq">>,
    <<"f64.ne", "BinaryOp", "f64_ne">>,
    <<"f64.lt", "BinaryOp", "f64_lt">>,
    <<"f64.gt", "BinaryOp", "f64_gt">>,
    <<"f64.le", "BinaryOp", "f64_le">>,
    <<"f64.ge", "BinaryOp", "f64_ge">>,
    <<"i32.add", "BinaryOp", "i32_add">>,
    <<"i32.sub", "BinaryOp", "i32_sub">>,
    <<"i32.mul", "BinaryOp", "i32_mul">>,
    <<"i32.mul_hi_s", "BinaryOp", "i32_mul_hi_s">>,
    <<"i32.mul_hi_u", "BinaryOp", "i32_mul_hi_u">>,
    <<"i32.div_s", "BinaryOp", "i32_div_s">>,
    <<"i32.div_u", "BinaryOp", "i32_div_u">>,
    <<"i32.rem_s", "BinaryOp", "i32_rem_s">>,
    <<"i32.rem_u", "BinaryOp", "i32_rem_u">>,
    <<"i32.inc", "UnaryOpWithImmI64", "i32_inc">>,
    <<"i32.dec", "UnaryOpWithImmI64", "i32_dec">>,
    <<"i64.add", "BinaryOp", "i64_add">>,
    <<"i64.sub", "BinaryOp", "i64_sub">>,
    <<"i64.mul", "BinaryOp", "i64_mul">>,
    <<"i64.mul_hi_s", "BinaryOp", "i64_mul_hi_s">>,
    <<"i64.mul_hi_u", "BinaryOp", "i64_mul_hi_u">>,
    <<"i64.div_s", "BinaryOp", "i64_div_s">>,
    <<"i64.div_u", "BinaryOp", "i64_div_u">>,
    <<"i64.rem_s", "BinaryOp", "i64_rem_s">>,
    <<"i64.rem_u", "BinaryOp", "i64_rem_u">>,
    <<"i64.inc", "UnaryOpWithImmI64", "i64_inc">>,
    <<"i64.dec", "UnaryOpWithImmI64", "i64_dec">>,
    <<"f32.add", "BinaryOp", "f32_add">>,
    <<"f32.sub", "BinaryOp", "f32_sub">>,
    <<"f32.mul", "BinaryOp", "f32_mul">>,
    <<"f32.div", "BinaryOp", "f32_div">>,
    <<"f64.add", "BinaryOp", "f64_add">>,
    <<"f64.sub", "BinaryOp", "f64_sub">>,
    <<"f64.mul", "BinaryOp", "f64_mul">>,
    <<"f64.div", "BinaryOp", "f64_div">>,
    <<"i32.and", "BinaryOp", "i32_and">>,
    <<"i32.or", "BinaryOp", "i32_or">>,
    <<"i32.xor", "BinaryOp", "i32_xor">>,
    <<"i32.shift_left", "BinaryOp", "i32_shift_left">>,
    <<"i32.shift_right_s", "BinaryOp", "i32_shift_right_s">>,
    <<"i32.shift_right_u", "BinaryOp", "i32_shift_right_u">>,
    <<"i32.rotate_left", "BinaryOp", "i32_rotate_left">>,
    <<"i32.rotate_right", "BinaryOp", "i32_rotate_right">>,
    <<"i32.not", "UnaryOp", "i32_not">>,
    <<"i32.leading_zeros", "UnaryOp", "i32_leading_zeros">>,
    <<"i32.leading_ones", "UnaryOp", "i32_leading_ones">>,
    <<"i32.trailing_zeros", "UnaryOp", "i32_trailing_zeros">>,
    <<"i32.count_ones", "UnaryOp", "i32_count_ones">>,
    <<"i64.and", "BinaryOp", "i64_and">>,
    <<"i64.or", "BinaryOp", "i64_or">>,
    <<"i64.xor", "BinaryOp", "i64_xor">>,
    <<"i64.shift_left", "BinaryOp", "i64_shift_left">>,
    <<"i64.shift_right_s", "BinaryOp", "i64_shift_right_s">>,
    <<"i64.shift_right_u", "BinaryOp", "i64_shift_right_u">>,
    <<"i64.rotate_left", "BinaryOp", "i64_rotate_left">>,
    <<"i64.rotate_right", "BinaryOp", "i64_rotate_right">>,
    <<"i64.not", "UnaryOp", "i64_not">>,
    <<"i64.leading_zeros", "UnaryOp", "i64_leading_zeros">>,
    <<"i64.leading_ones", "UnaryOp", "i64_leading_ones">>,
    <<"i64.trailing_zeros", "UnaryOp", "i64_trailing_zeros">>,
    <<"i64.count_ones", "UnaryOp", "i64_count_ones">>,
    <<"i32.abs", "UnaryOp", "i32_abs">>,
    <<"i32.neg", "UnaryOp", "i32_neg">>,
    <<"i64.abs", "UnaryOp", "i64_abs">>,
    <<"i64.neg", "UnaryOp", "i64_neg">>,
    <<"f32.abs", "UnaryOp", "f32_abs">>,
    <<"f32.neg", "UnaryOp", "f32_neg">>,
    <<"f32.ceil", "UnaryOp", "f32_ceil">>,
    <<"f32.floor", "UnaryOp", "f32_floor">>,
    <<"f32.round_half_to_even", "UnaryOp", "f32_round_half_to_even">>,
    <<"f32.trunc", "UnaryOp", "f32_trunc">>,
    <<"f32.sqrt", "UnaryOp", "f32_sqrt">>,
    <<"f32.copysign", "BinaryOp", "f32_copysign">>,
    <<"f32.min", "BinaryOp", "f32_min">>,
    <<"f32.max", "BinaryOp", "f32_max">>,
    <<"f64.abs", "UnaryOp", "f64_abs">>,
    <<"f64.neg", "UnaryOp", "f64_neg">>,
    <<"f64.ceil", "UnaryOp", "f64_ceil">>,
    <<"f64.floor", "UnaryOp", "f64_floor">>,
    <<"f64.round_half_to_even", "UnaryOp", "f64_round_half_to_even">>,
    <<"f64.trunc", "UnaryOp", "f64_trunc">>,
    <<"f64.sqrt", "UnaryOp", "f64_sqrt">>,
    <<"f64.copysign", "BinaryOp", "f64_copysign">>,
    <<"f64.min", "BinaryOp", "f64_min">>,
    <<"f64.max", "BinaryOp", "f64_max">>,
    <<"trap", "Trap", "">>,
    <<"addr.local", "LocalLoad", "addr_local">>,
    <<"addr.data", "DataLoad", "addr_data">>,
    <<"addr.thread_local_data", "DataLoad", "addr_thread_local_data">>,
    <<"addr.function", "AddrFunction", "">>,
    <<"i32.atomic_rmw_add", "AtomicRmw", "i32_atomic_rmw_add">>,
    <<"i32.atomic_rmw_sub", "AtomicRmw", "i32_atomic_rmw_sub">>,
    <<"i32.atomic_rmw_and", "AtomicRmw", "i32_atomic_rmw_and">>,
    <<"i32.atomic_rmw_or", "AtomicRmw", "i32_atomic_rmw_or">>,
    <<"i32.atomic_rmw_xor", "AtomicRmw", "i32_atomic_rmw_xor">>,
    <<"i32.atomic_rmw_exchange", "AtomicRmw", "i32_atomic_rmw_exchange">>,
    <<"i32.atomic_cas", "AtomicCas", "">>,
    <<"i64.atomic_rmw_add", "AtomicRmw", "i64_atomic_rmw_add">>,
    <<"i64.atomic_rmw_sub", "AtomicRmw", "i64_atomic_rmw_sub">>,
    <<"i64.atomic_rmw_and", "AtomicRmw", "i64_atomic_rmw_and">>,
    <<"i64.atomic_rmw_or", "AtomicRmw", "i64_atomic_rmw_or">>,
    <<"i64.atomic_rmw_xor", "AtomicRmw", "i64_atomic_rmw_xor">>,
    <<"i64.atomic_rmw_exchange", "AtomicRmw", "i64_atomic_rmw_exchange">>,
    <<"i64.atomic_cas", "AtomicCas", "">>,
    <<"i32.imm", "ImmI32", "">>,
    <<"i64.imm", "ImmI64", "">>,
    <<"f32.imm", "ImmF32", "">>,
    <<"f64.imm", "ImmF64", "">>,
    <<"when", "When", "">>,
    <<"if", "If", "">>,
    <<"branch", "Branch", "">>,
    <<"for", "For", "">>,
    <<"do", "Sequence", "do">>,
    <<"break", "Sequence", "break">>,
    <<"return", "Sequence", "return">>,
    <<"recur", "Sequence", "recur">>,
    <<"rerun", "Sequence", "rerun">>,
    <<"call", "Call", "">>,
    <<"dyncall", "DynCall", "">>,
    <<"syscall", "SysCall", "">> >>

TableNames == [k \in 1..Len(Table) |-> Table[k][1]]

FullTable == {TableNames[k] : k \in 1..Len(TableNames)}

\* The values of Option<HashMap<..>>, and what a read that races with the
\* assignment of the static can find: a value of which only a part has been
\* written.
None == [tag |-> "None", table |-> {}]

Some(table) == [tag |-> "Some", table |-> table]

Torn == [tag |-> "Torn", table |-> {}]

\* The thread's call has not read INSTRUCTION_MAP.
Unread == [tag |-> "Unread", table |-> {}]

\* A thread outside the parser.  entry is the entry point of its call, text
\* the instruction name in the tokens it parses ("none": the tokens hold no
\* instruction), table the local of init_instruction_map_internal, seen the
\* value of INSTRUCTION_MAP its lookup found, kind the lookup's result.
Idle == [pc |-> "idle", entry |-> "none", text |-> "none", table |-> {},
         seen |-> Unread, kind |-> "none", parses |-> 0]

\* No thread is in the parser and nothing has been initialized: the statics
\* as the program starts (native_assembly_instruction.rs:11, 15).
ParserAtRest ==
    /\ INIT = "incomplete"
    /\ INSTRUCTION_MAP = None
    /\ thread = [t \in Threads |-> Idle]
    /\ runs = 0

\* The result of a call that has not been made.
Pending == [tag |-> "Pending", value |-> << >>, iter |-> << >>, message |-> ""]

\* No caller has handed tokens to the parser.
SyntaxAtRest ==
    /\ callee = "none"
    /\ tokens = << >>
    /\ result = Pending

\* DataDescription::new() (codegen.rs:96, 134) and DataDescription::clear():
\* no contents and no alignment.
Cleared == [init |-> "Uninitialized", contents |-> << >>, size |-> 0, align |-> 0]

\* The value of `returned` before any call.
NotCalled == [tag |-> "none", name |-> "none"]

\* A code generator as new_jit / new_object_file return it
\* (codegen.rs:44-105, 112-143), in a build without debug assertions.
CodegenAtRest ==
    /\ data_description = Cleared
    /\ module = {}
    /\ returned = NotCalled
    /\ defines = 0
    /\ debug_assertions = FALSE

----------------------------------------------------------------------------
(* instruction.rs: the data model                                          *)

\* enum OperandSize (instruction.rs:286-301), the general-purpose widths.
OperandSize == {"Byte", "Word", "Dword", "Qword"}

\* Width in bits of an OperandSize (comments of instruction.rs:289-295).
SizeBits(size) ==
    CASE size = "Byte" -> 8
      [] size = "Word" -> 16
      [] size = "Dword" -> 32
      [] size = "Qword" -> 64

\* enum Register (instruction.rs:184-199): sixteen general-purpose registers,
\* each in four widths.  index is the number the comments give as
\* (REX.R/B, ModRM.reg/rm): RAX..RDI are 0..7, R8..R15 are 8..15.  The enum
\* has no variant for AH, BH, CH, DH (instruction.rs:66-68: "they are not
\* allowed"), so no Register value names one of them.
Register == [index : 0..15, size : OperandSize]

Reg(i, size) == [index |-> i, size |-> size]

RAX == Reg(0, "Qword")
RCX == Reg(1, "Qword")
RBX == Reg(3, "Qword")
RSP == Reg(4, "Qword")
RBP == Reg(5, "Qword")
RSI == Reg(6, "Qword")
R8 == Reg(8, "Qword")
R9 == Reg(9, "Qword")
R12 == Reg(12, "Qword")
R13 == Reg(13, "Qword")
EAX == Reg(0, "Dword")
ECX == Reg(1, "Dword")
R9D == Reg(9, "Dword")
AL == Reg(0, "Byte")
CL == Reg(1, "Byte")
R9B == Reg(9, "Byte")

\* enum REW (instruction.rs:306-332): the REX flag bits.
REW_W == 8
REW_R == 4
REW_X == 2
REW_B == 1

\* enum Operand (instruction.rs:18-25).  Operand::Register(u8) holds the
\* number of a Register; Immediate8/16/32/64 are the immediates by width;
\* Operand::Memory(u64) holds the size of the access in bytes and nothing else.
RegisterOperand(r) == [kind |-> "Register", reg |-> r]

ImmediateOperand(size, value) == [kind |-> "Immediate", size |-> size, value |-> value]

MemoryOperand(size) == [kind |-> "Memory", size |-> size]

\* The None of an operand slot that is not used (instruction.rs:14).
NoOperand == [kind |-> "None"]

\* struct Instruction (instruction.rs:12-15): a mnemonic and four operand
\* slots, those after the operands being None.
Instruction(mnemonic, op1, op2) ==
    [mnemonic |-> mnemonic, operands |-> <<op1, op2, NoOperand, NoOperand>>]

----------------------------------------------------------------------------
(* encode.rs: the encoder                                                  *)

\* The outcomes of a call.  encode() is declared "-> Vec<u8>" (encode.rs:49):
\* a call that comes back hands the caller bytes and nothing else, so the only
\* other outcome is a panic.
Panic == [outcome |-> "panicked", bytes |-> << >>, error |-> "none"]

\* An encoder of mov r32, imm32 that writes the immediate in the fewest bytes
\* that hold its value: one for a value below 256, four otherwise.
encode_shortest_immediate(ins, address, labels) ==
    IF /\ ins.operands[1].kind = "Register"
       /\ ins.operands[2].kind = "Immediate"
       /\ ins.operands[2].size = "Dword"
    THEN [outcome |-> "returned",
          bytes |-> <<184 + (ins.operands[1].reg.index % 8)>>
                    \o (IF ins.operands[2].value < 256
                        THEN <<ins.operands[2].value>>
                        ELSE [k \in 1..4 |-> (ins.operands[2].value \div (256 ^ (k - 1))) % 256]),
          error |-> "none"]
    ELSE Panic

\* An encoder that writes into a buffer it keeps between the calls and does
\* not clear: a call returns the byte of every call made so far.
encode_into_kept_buffer(ins, address, labels) ==
    [outcome |-> "returned", bytes |-> [k \in 1..(Len(history) + 1) |-> 144], error |-> "none"]

\* An encoder that takes every memory operand for one relative to the
\* instruction's place, and writes a displacement computed from
\* current_address for it.
encode_relative_to_address(ins, address, labels) ==
    IF \E k \in 1..4 : ins.operands[k].kind = "Memory"
    THEN [outcome |-> "returned", bytes |-> <<139, 5, (0 - address) % 256>>, error |-> "none"]
    ELSE Panic

\* encode() (encode.rs:41-52): the body is todo!(), whatever the arguments.
encode(ins, address, labels) == Panic

----------------------------------------------------------------------------
(* The calls the model makes                                               *)

\* The access sizes of Operand::Memory, in bytes.
MemorySizes == {SizeBits(size) \div 8 : size \in OperandSize}

\* mov r/m, r between registers of one width (encode.rs:74-95).
IsMovRegisterRegister(ins) ==
    \E d \in Register : \E s \in {r \in Register : r.size = d.size} :
        ins = Instruction("MOV", RegisterOperand(d), RegisterOperand(s))

\* mov r, r/m from memory (encode.rs:163-173): the memory operand is the size
\* of the access, whatever the effective address.
IsMovLoad(ins) ==
    \E r \in Register, m \in MemorySizes :
        ins = Instruction("MOV", RegisterOperand(r), MemoryOperand(m))

\* mov r/m, r to memory (encode.rs:177-180, 248).
IsMovStore(ins) ==
    \E r \in Register, m \in MemorySizes :
        ins = Instruction("MOV", MemoryOperand(m), RegisterOperand(r))

\* The value of an Operand::Immediate64: its four 16-bit words, the least
\* significant first (a u64 does not fit a number of the model).
Imm64(w0, w1, w2, w3) == <<w0, w1, w2, w3>>

\* The immediates of a width (encode.rs:368-376), those of 8, 16 and 32 bits
\* kept below 2^31; 0x1234567890abcdef is Imm64(0xcdef, 0x90ab, 0x5678, 0x1234).
ImmediatesOf(size) ==
    CASE size = "Byte" -> {0, 239}
      [] size = "Word" -> {0, 239, 52719}
      [] size = "Dword" -> {0, 239, 52719, 305419896}
      [] size = "Qword" -> {Imm64(0, 0, 0, 0), Imm64(52719, 37035, 22136, 4660)}

\* mov r, imm (encode.rs:368-376).
IsMovImmediate(ins) ==
    \E r \in Register : \E v \in ImmediatesOf(r.size) :
        ins = Instruction("MOV", RegisterOperand(r), ImmediateOperand(r.size, v))

\* mov r/m, imm (encode.rs:395-400): an immediate of the width of the access,
\* or the 32-bit immediate of "MOV r/m64, imm32" (encode.rs:388).
IsMovMemoryImmediate(ins) ==
    \E m \in OperandSize :
        \E i \in {m} \cup (IF m = "Qword" THEN {"Dword"} ELSE {}) :
            \E v \in ImmediatesOf(i) :
                ins = Instruction("MOV", MemoryOperand(SizeBits(m) \div 8),
                                  ImmediateOperand(i, v))

\* mov r/m, imm64 and mov r, imm64 into a register narrower than the immediate.
IsMovImmediate64(ins) ==
    \/ \E r \in {EAX, AL} : \E v \in ImmediatesOf("Qword") :
          ins = Instruction("MOV", RegisterOperand(r), ImmediateOperand("Qword", v))
    \/ \E v \in ImmediatesOf("Qword") :
          ins = Instruction("MOV", MemoryOperand(8), ImmediateOperand("Qword", v))

\* The addresses at which the instruction is to be placed: the start of the
\* image, right after the six bytes of num1..num3 (the place of the
\* instructions of encode.rs:276-286), and the last address below 2^31, from
\* which no label of the tests is within reach of a 32-bit displacement.
CurrentAddresses == {0, 6, 2147483647}

\* The label table of the tests (encode.rs:263-266): num1, num2, num3, two bytes each.
LabelTable == << <<"num1", 0>>, <<"num2", 2>>, <<"num3", 4>> >>

\* The calls one caller makes.
MaxCalls == 2

NoCall == [instruction |-> Instruction("NONE", NoOperand, NoOperand),
           pc |-> "ready", output |-> << >>, error |-> "none"]

Init ==
    /\ \/ IsMovRegisterRegister(instruction)
       \/ IsMovLoad(instruction)
       \/ IsMovStore(instruction)
       \/ IsMovImmediate(instruction)
       \/ IsMovMemoryImmediate(instruction)
       \/ IsMovImmediate64(instruction)
    /\ current_address \in CurrentAddresses
    /\ lable_address_list = LabelTable
    /\ pc = "ready"
    /\ output = << >>
    /\ error = "none"
    /\ previous = NoCall
    /\ calls = 1
    /\ history = << >>
    /\ ParserAtRest
    /\ SyntaxAtRest
    /\ CodegenAtRest

\* The caller's call of encode(): it returns the bytes, or the panic of
\* todo!() unwinds through the caller.
Encode ==
    /\ pc = "ready"
    /\ LET r == encode(instruction, current_address, lable_address_list)
       IN /\ pc' = r.outcome
          /\ output' = r.bytes
          /\ error' = r.error
          /\ history' = Append(history, [instruction |-> instruction,
                                         current_address |-> current_address,
                                         lable_address_list |-> lable_address_list,
                                         pc |-> r.outcome, output |-> r.bytes,
                                         error |-> r.error])
    /\ UNCHANGED <<instruction, current_address, lable_address_list, previous, calls>>
    /\ UNCHANGED <<parserVars, syntaxVars, codegenVars>>

\* The same operand with another immediate value.
WithValue(op, v) ==
    IF op.kind = "Immediate" THEN [op EXCEPT !.value = v] ELSE op

ValuesOf(op) ==
    IF op.kind = "Immediate" THEN ImmediatesOf(op.size) ELSE {0}

\* The caller's next call: the same instruction shape with another immediate
\* value, or the same instruction again.  (A panic of the previous call ends
\* the calling test; the test harness runs the next test.)
NextCall ==
    /\ pc # "ready"
    /\ calls < MaxCalls
    /\ previous' = [instruction |-> instruction, pc |-> pc, output |-> output, error |-> error]
    /\ \E v1 \in ValuesOf(instruction.operands[1]), v2 \in ValuesOf(instruction.operands[2]) :
          instruction' = [instruction EXCEPT !.operands =
                              <<WithValue(@[1], v1), WithValue(@[2], v2), @[3], @[4]>>]
    /\ pc' = "ready"
    /\ output' = << >>
    /\ error' = "none"
    /\ calls' = calls + 1
    /\ UNCHANGED <<current_address, lable_address_list, history>>
    /\ UNCHANGED <<parserVars, syntaxVars, codegenVars>>

Next == Encode \/ NextCall

SpecEncode == Init /\ [][Next]_vars

\* encode() is an ordinary synchronous function: a call that has been made runs.
SpecEncodeLive == SpecEncode /\ WF_vars(Encode)

\* A caller that encodes a sequence of instructions, each at an address of its
\* choice: the instructions are those of the tests' first lines (encode.rs:75,
\* 166, 276, 372), as the Operand type holds them.
Program ==
    {Instruction("MOV", RegisterOperand(RAX), RegisterOperand(RCX)),
     Instruction("MOV", RegisterOperand(RAX), MemoryOperand(8)),
     Instruction("MOV", RegisterOperand(EAX), MemoryOperand(4)),
     Instruction("MOV", RegisterOperand(Reg(10, "Dword")), ImmediateOperand("Dword", 239))}

\* The calls that caller makes.
MaxProgram == 3

InitProgram ==
    /\ instruction \in Program
    /\ current_address \in CurrentAddresses
    /\ lable_address_list = LabelTable
    /\ pc = "ready"
    /\ output = << >>
    /\ error = "none"
    /\ previous = NoCall
    /\ calls = 1
    /\ history = << >>
    /\ ParserAtRest
    /\ SyntaxAtRest
    /\ CodegenAtRest

\* The caller's next call: any instruction of the program at any address, the
\* one it has encoded before included.
CallAgain ==
    /\ pc # "ready"
    /\ calls < MaxProgram
    /\ previous' = [instruction |-> instruction, pc |-> pc, output |-> output, error |-> error]
    /\ instruction' \in Program
    /\ current_address' \in CurrentAddresses
    /\ pc' = "ready"
    /\ output' = << >>
    /\ error' = "none"
    /\ calls' = calls + 1
    /\ UNCHANGED <<lable_address_list, history>>
    /\ UNCHANGED <<parserVars, syntaxVars, codegenVars>>

NextProgram == Encode \/ CallAgain

SpecProgram == InitProgram /\ [][NextProgram]_vars

----------------------------------------------------------------------------
(* parser.rs: the entry points and the lookup                              *)

\* No call of encode() is under way.
EncoderAtRest ==
    /\ instruction = NoCall.instruction
    /\ current_address = 0
    /\ lable_address_list = << >>
    /\ pc = "ready"
    /\ output = << >>
    /\ error = "none"
    /\ previous = NoCall
    /\ calls = 0
    /\ history = << >>

InitParser == ParserAtRest /\ EncoderAtRest /\ SyntaxAtRest /\ CodegenAtRest

\* The instruction names in the tokens handed to the parser: none (the module
\* has no code), a name of the table, a name that is not in it.
Texts == {"none", "syscall", "nop"}

\* A thread calls parse (parser.rs:19), which starts with
\* init_instruction_map(), or parse_module_node (parser.rs:27) itself.
Call(t) ==
    /\ thread[t].pc = "idle"
    /\ thread[t].parses < MaxParses
    /\ \E e \in {"parse", "parse_module_node"}, x \in Texts :
          thread' = [thread EXCEPT ![t] =
                        [pc |-> IF e = "parse" THEN "init_instruction_map" ELSE "parse_module_node",
                         entry |-> e, text |-> x, table |-> {}, seen |-> Unread,
                         kind |-> "none", parses |-> @.parses + 1]]
    /\ UNCHANGED <<INIT, INSTRUCTION_MAP, runs>>
    /\ UNCHANGED <<encoderVars, syntaxVars, codegenVars>>

\* Once::call_once runs the closure in the thread that finds the Once
\* incomplete.
MustRun(once) == once = "incomplete"

\* INIT.call_once(..) (native_assembly_instruction.rs:133): this thread is the
\* one to run the closure, and enters init_instruction_map_internal with an
\* empty table (native_assembly_instruction.rs:139).
CallOnceRun(t) ==
    /\ thread[t].pc \in {"init_instruction_map", "parked"}
    /\ MustRun(INIT)
    /\ INIT' = "running"
    /\ runs' = runs + 1
    /\ thread' = [thread EXCEPT ![t].pc = "init_instruction_map_internal", ![t].table = {}]
    /\ UNCHANGED INSTRUCTION_MAP
    /\ UNCHANGED <<encoderVars, syntaxVars, codegenVars>>

\* INIT.call_once(..) while another thread runs the closure: the thread is
\* parked until that thread is done.
CallOncePark(t) ==
    /\ thread[t].pc = "init_instruction_map"
    /\ INIT = "running"
    /\ thread' = [thread EXCEPT ![t].pc = "parked"]
    /\ UNCHANGED <<INIT, INSTRUCTION_MAP, runs>>
    /\ UNCHANGED <<encoderVars, syntaxVars, codegenVars>>

\* INIT.call_once(..) once the closure has run: it returns at once, and parse
\* goes on to parse_module_node (parser.rs:24).
CallOnceDone(t) ==
    /\ thread[t].pc \in {"init_instruction_map", "parked"}
    /\ INIT = "complete"
    /\ thread' = [thread EXCEPT ![t].pc = "parse_module_node"]
    /\ UNCHANGED <<INIT, INSTRUCTION_MAP, runs>>
    /\ UNCHANGED <<encoderVars, syntaxVars, codegenVars>>

\* add(name, kind): table.insert (native_assembly_instruction.rs:141-143), the
\* names in the order of the source.
Add(t) ==
    /\ thread[t].pc = "init_instruction_map_internal"
    /\ Cardinality(thread[t].table) < Len(TableNames)
    /\ thread' = [thread EXCEPT ![t].table = @ \cup {TableNames[Cardinality(@) + 1]}]
    /\ UNCHANGED <<INIT, INSTRUCTION_MAP, runs>>
    /\ UNCHANGED <<encoderVars, syntaxVars, codegenVars>>

\* unsafe { INSTRUCTION_MAP = Some(table) } (native_assembly_instruction.rs:937)
\* begins: the static is a value of several words and the assignment is no
\* atomic operation.
StoreBegin(t) ==
    /\ thread[t].pc = "init_instruction_map_internal"
    /\ Cardinality(thread[t].table) = Len(TableNames)
    /\ thread' = [thread EXCEPT ![t].pc = "store"]
    /\ UNCHANGED <<INIT, INSTRUCTION_MAP, runs>>
    /\ UNCHANGED <<encoderVars, syntaxVars, codegenVars>>

\* The assignment is done, and init_instruction_map_internal returns.
StoreEnd(t) ==
    /\ thread[t].pc = "store"
    /\ INSTRUCTION_MAP' = Some(thread[t].table)
    /\ thread' = [thread EXCEPT ![t].pc = "call_once"]
    /\ UNCHANGED <<INIT, runs>>
    /\ UNCHANGED <<encoderVars, syntaxVars, codegenVars>>

\* The closure has returned: the Once is complete, call_once returns, and parse
\* goes on to parse_module_node (parser.rs:24).
CallOnceComplete(t) ==
    /\ thread[t].pc = "call_once"
    /\ INIT' = "complete"
    /\ thread' = [thread EXCEPT ![t].pc = "parse_module_node"]
    /\ UNCHANGED <<INSTRUCTION_MAP, runs>>
    /\ UNCHANGED <<encoderVars, syntaxVars, codegenVars>>

\* get_instruction_kind (parser.rs:2367-2375) on the value map of the static:
\* a panic when it is None, else the result of table_ref.get(inst_name).
get_instruction_kind(map, inst_name) ==
    CASE map.tag = "None" -> "panic"
      [] map.tag = "Some" -> IF inst_name \in map.table THEN "Some" ELSE "None"

\* What a read of INSTRUCTION_MAP by thread t can find.  No lock and no
\* atomic guards the static: while another thread is in the assignment, the
\* read is a data race, and it finds the old value, the new one, or a part of
\* the new one.
Readable(t) ==
    IF \E u \in Threads \ {t} : thread[u].pc = "store"
    THEN {None, Torn} \cup {Some(thread[u].table) : u \in {u \in Threads \ {t} : thread[u].pc = "store"}}
    ELSE {INSTRUCTION_MAP}

\* parse_module_node reaches an instruction (parser.rs:762) and looks its name
\* up.  With a torn value the lookup is undefined: any result, or a crash.
Lookup(t) ==
    /\ thread[t].pc = "parse_module_node"
    /\ thread[t].text # "none"
    /\ \E map \in Readable(t) :
          \E k \in (IF map = Torn THEN {"panic", "Some", "None"}
                     ELSE {get_instruction_kind(map, thread[t].text)}) :
              thread' = [thread EXCEPT ![t].seen = map,
                                       ![t].kind = k,
                                       ![t].pc = IF k = "panic" THEN "panicked" ELSE "returned"]
    /\ UNCHANGED <<INIT, INSTRUCTION_MAP, runs>>
    /\ UNCHANGED <<encoderVars, syntaxVars, codegenVars>>

\* parse_module_node returns without having met an instruction.
NoLookup(t) ==
    /\ thread[t].pc = "parse_module_node"
    /\ thread[t].text = "none"
    /\ thread' = [thread EXCEPT ![t].pc = "returned"]
    /\ UNCHANGED <<INIT, INSTRUCTION_MAP, runs>>
    /\ UNCHANGED <<encoderVars, syntaxVars, codegenVars>>

\* The caller has its result, and is free to call again.  (A panic ends the
\* thread.)
Return(t) ==
    /\ thread[t].pc = "returned"
    /\ thread' = [thread EXCEPT ![t].pc = "idle"]
    /\ UNCHANGED <<INIT, INSTRUCTION_MAP, runs>>
    /\ UNCHANGED <<encoderVars, syntaxVars, codegenVars>>

NextParser ==
    \E t \in Threads :
        \/ Call(t)
        \/ CallOnceRun(t)
        \/ CallOncePark(t)
        \/ CallOnceDone(t)
        \/ Add(t)
        \/ StoreBegin(t)
        \/ StoreEnd(t)
        \/ CallOnceComplete(t)
        \/ Lookup(t)
        \/ NoLookup(t)
        \/ Return(t)

SpecParser == InitParser /\ [][NextParser]_vars

----------------------------------------------------------------------------
(* Reading an encoding: the fields of a byte sequence in the instruction   *)
(* format of encode.rs:11-18 (legacy prefix, REX, opcode, ModRM, SIB,      *)
(* displacement, immediate), for the one-byte MOV opcodes.                 *)

ByteAt(bytes, k) == IF k \in 1..Len(bytes) THEN bytes[k] ELSE -1

\* 0x64 (FS), 0x65 (GS), 0x66 (operand size): instruction.rs:151-156, encode.rs:186-187.
LegacyPrefixes == {100, 101, 102}

PrefixLen(bytes) ==
    IF ByteAt(bytes, 1) \in LegacyPrefixes
    THEN IF ByteAt(bytes, 2) \in LegacyPrefixes THEN 2 ELSE 1
    ELSE 0

\* REX is one byte 0100WRXB, 0x40..0x4F (instruction.rs:78, 90).
HasRex(bytes) == ByteAt(bytes, PrefixLen(bytes) + 1) \in 64..79

RexLen(bytes) == IF HasRex(bytes) THEN 1 ELSE 0

\* 1 when the REX byte is there with the flag set.
RexFlag(bytes, flag) ==
    IF HasRex(bytes) THEN (ByteAt(bytes, PrefixLen(bytes) + 1) \div flag) % 2 ELSE 0

OpcodeAt(bytes) == PrefixLen(bytes) + RexLen(bytes) + 1

ModRMAt(bytes) == OpcodeAt(bytes) + 1

\* ModRM is (mod 2-bit | reg 3-bit | r/m 3-bit) (instruction.rs:336-340, encode.rs:74).
ModOf(bytes) == ByteAt(bytes, ModRMAt(bytes)) \div 64

RegOf(bytes) == (ByteAt(bytes, ModRMAt(bytes)) \div 8) % 8

RmOf(bytes) == ByteAt(bytes, ModRMAt(bytes)) % 8

\* R/M = 100 says that a SIB byte follows (encode.rs:239).
HasSIB(bytes) == ModOf(bytes) \in 0..2 /\ RmOf(bytes) = 4

SIBAt(bytes) == ModRMAt(bytes) + 1

\* SIB is (scale 2-bit | index 3-bit | base 3-bit) (instruction.rs:343-347, encode.rs:296).
SIBOf(bytes) == ByteAt(bytes, SIBAt(bytes))

\* The bytes after ModRM and SIB.
TailOf(bytes) ==
    SubSeq(bytes, ModRMAt(bytes) + (IF HasSIB(bytes) THEN 2 ELSE 1), Len(bytes))

\* The low three bits of a register number, and its extension bit.
Low3(r) == r.index % 8

Ext(r) == IF r.index \in 8..15 THEN 1 ELSE 0

\* v in n bytes, little-endian, two's complement.
LittleEndian(v, n) == [k \in 1..n |-> (v \div (256 ^ (k - 1))) % 256]

\* The bytes of an immediate operand, little-endian in its width.
ImmediateBytes(op) ==
    IF op.size = "Qword"
    THEN LittleEndian(op.value[1], 2) \o LittleEndian(op.value[2], 2)
         \o LittleEndian(op.value[3], 2) \o LittleEndian(op.value[4], 2)
    ELSE LittleEndian(op.value, SizeBits(op.size) \div 8)

\* The operands of a two-operand instruction.
Op1(ins) == ins.operands[1]

Op2(ins) == ins.operands[2]

IsRegReg(ins) ==
    /\ ins.mnemonic = "MOV"
    /\ Op1(ins).kind = "Register"
    /\ Op2(ins).kind = "Register"

IsLoad(ins) ==
    /\ ins.mnemonic = "MOV"
    /\ Op1(ins).kind = "Register"
    /\ Op2(ins).kind = "Memory"

IsStore(ins) ==
    /\ ins.mnemonic = "MOV"
    /\ Op1(ins).kind = "Memory"
    /\ Op2(ins).kind = "Register"

IsRegImm(ins) ==
    /\ ins.mnemonic = "MOV"
    /\ Op1(ins).kind = "Register"
    /\ Op2(ins).kind = "Immediate"

\* mov r/m, imm (encode.rs:395-400).
IsMemImm(ins) ==
    /\ ins.mnemonic = "MOV"
    /\ Op1(ins).kind = "Memory"
    /\ Op2(ins).kind = "Immediate"

HasMemory(ins) == IsLoad(ins) \/ IsStore(ins)

\* The memory operand, and the register operand that goes into ModRM.reg.
MemoryOf(ins) == IF Op1(ins).kind = "Memory" THEN Op1(ins) ELSE Op2(ins)

RegisterOf(ins) == IF IsLoad(ins) THEN Op1(ins).reg ELSE Op2(ins).reg

\* An instruction with an Operand::Immediate64.
CarriesImmediate64(ins) ==
    \E k \in 1..2 : ins.operands[k].kind = "Immediate" /\ ins.operands[k].size = "Qword"

\* mov r64, imm64 (encode.rs:357).
IsMovR64Imm64(ins) ==
    /\ IsRegImm(ins)
    /\ Op1(ins).reg.size = "Qword"
    /\ Op2(ins).size = "Qword"

\* The calls the encoding claims are about: encode() has been called.
Called == pc # "ready"

\* The documented instructions used as the cases of the claims.
Mov(dst, src) == Instruction("MOV", dst, src)

R(r) == RegisterOperand(r)

----------------------------------------------------------------------------
(* The effective address of a memory operand, as the tests write it        *)
(* ("EA = Base + (Index * Scale) + Displacement", "fs:[...]", "[rel num1]",*)
(* encode.rs:105-120, 268-286).  It is what the assembly line says and what *)
(* the documented bytes depend on; of it, the Instruction holds the size.  *)

\* The absent index register of an address without one.
NoRegister == [index |-> 16, size |-> "Qword"]

\* Displacements of the tests: zero, the disp8 range and its edges, and disp32
\* values (encode.rs:247-257, 338-340).
Displacements == {0, 16, -16, 127, 128, -128, -129, 4660, -4660, 305419896}

\* SIB scales (encode.rs:109).
Scales == {1, 2, 4, 8}

QwordRegisters == {r \in Register : r.size = "Qword"}

\* The labels of the tests (encode.rs:263-265).
Labels == {"num1", "num2", "num3"}

\* seg:[base + index*scale + disp] of an access of a width; label = "none"
\* unless the address is [label] (rel = FALSE) or [rel label] (rel = TRUE).
EffectiveAddress(size, base, index, scale, disp, segment) ==
    [size |-> size, base |-> base, index |-> index, scale |-> scale,
     disp |-> disp, segment |-> segment, label |-> "none", rel |-> FALSE]

LabelAddressOf(size, label, rel) ==
    [size |-> size, base |-> NoRegister, index |-> NoRegister, scale |-> 1,
     disp |-> 0, segment |-> "none", label |-> label, rel |-> rel]

\* [base + disp] and [base + index*scale + disp] of a qword access.
Based(base, disp) == EffectiveAddress("Qword", base, NoRegister, 1, disp, "none")

Indexed(base, index, scale, disp) == EffectiveAddress("Qword", base, index, scale, disp, "none")

\* The Operand a caller builds for a memory operand with effective address
\* ea: Operand::Memory(size) (instruction.rs:24).  Base, index, scale,
\* displacement, segment and label have no place in it.
OperandOf(ea) == MemoryOperand(SizeBits(ea.size) \div 8)

\* The OperandSize of an access of n bytes.
SizeOfBytes(n) == CHOOSE size \in OperandSize : SizeBits(size) \div 8 = n

\* The effective addresses that an Operand::Memory stands for: every address
\* of an access of its size.
BasedAddresses(op) ==
    {EffectiveAddress(SizeOfBytes(op.size), b, NoRegister, 1, d, seg) :
        b \in QwordRegisters, d \in Displacements, seg \in {"none", "FS", "GS"}}

IndexedAddresses(op) ==
    {EffectiveAddress(SizeOfBytes(op.size), b, x, sc, d, "none") :
        b \in QwordRegisters, x \in QwordRegisters, sc \in Scales, d \in {0, 16, 4660}}

LabelAddresses(op) ==
    {LabelAddressOf(SizeOfBytes(op.size), l, rel) : l \in Labels, rel \in BOOLEAN}

\* The address of an instruction without a memory operand.
NoAddress == EffectiveAddress("Qword", NoRegister, NoRegister, 1, 0, "none")

\* The effective addresses with a base register that the instruction's memory
\* operand stands for; NoAddress alone when it has no memory operand.
AddressesOf(ins) ==
    IF HasMemory(ins) \/ IsMemImm(ins)
    THEN BasedAddresses(MemoryOf(ins)) \cup IndexedAddresses(MemoryOf(ins))
    ELSE {NoAddress}

\* The "[label]" and "[rel label]" addresses its memory operand stands for.
LabelAddressesOf(ins) ==
    IF HasMemory(ins) THEN LabelAddresses(MemoryOf(ins)) ELSE {}

HasIndex(ea) == ea.index # NoRegister

\* An address whose index register is RSP or R12.
HasStackIndex(ea) == HasIndex(ea) /\ Low3(ea.index) = 4

\* An instruction that names one of R8..R15 (as operand, base or index).
UsesExtended(ins, ea) ==
    \/ \E k \in 1..2 : ins.operands[k].kind = "Register" /\ Ext(ins.operands[k].reg) = 1
    \/ Ext(ea.base) = 1
    \/ Ext(ea.index) = 1

\* The address lable_address_list gives for a name.
LabelAddress(labels, name) ==
    LET k == CHOOSE k \in 1..Len(labels) : labels[k][1] = name
    IN labels[k][2]

\* The length of mov r, [rel label] / mov [rel label], r: 0x66 for 16-bit, REX
\* for 64-bit or R8..R15, opcode, ModRM, four displacement bytes.
RelativeLength(ins) ==
    LET r == RegisterOf(ins)
    IN (IF r.size = "Word" THEN 1 ELSE 0)
       + (IF r.size = "Qword" \/ Ext(r) = 1 THEN 1 ELSE 0)
       + 6

\* label - (address + length) is at least -2^31, for a label and an address
\* below 2^31 (the difference is then below 2^31 as well); written without a
\* number beyond 32 bits.
WithinDisp32(label, address, length) == address - label <= 2147483647 - (length - 1)

\* The instructions for which an encoding is claimed, ea being the effective
\* address of the memory operand.
Encodable(ins, ea) ==
    /\ ~ HasStackIndex(ea)
    /\ CarriesImmediate64(ins) => IsMovR64Imm64(ins)

----------------------------------------------------------------------------
(* The order of the fields                                                *)

\* 88, 89 (MOV r/m, r), 8A, 8B (MOV r, r/m), B0..BF (MOV r, imm), C6, C7
\* (MOV r/m, imm): encode.rs:60-64, 151-155, 352-356, 384-388.
MovOpcodes == {136, 137, 138, 139} \cup 176..191 \cup {198, 199}

\* bytes is prefixes, REX, opcode, ModRM, SIB, displacement, immediate, in that
\* order and with nothing else: read in that order the fields use up the bytes,
\* and the displacement and immediate are those of the instruction (the
\* displacement that of the effective address ea), little-endian.
WellOrdered(ins, ea, bytes) ==
    LET modrmLen == IF IsRegImm(ins) THEN 0 ELSE 1
        sibLen == IF modrmLen = 1 /\ HasSIB(bytes) THEN 1 ELSE 0
        dispLen == IF modrmLen = 0 THEN 0
                   ELSE CASE ModOf(bytes) = 1 -> 1
                          [] ModOf(bytes) = 2 -> 4
                          [] ModOf(bytes) = 0 /\ RmOf(bytes) = 5 -> 4
                          [] ModOf(bytes) = 0 /\ HasSIB(bytes) /\ SIBOf(bytes) % 8 = 5 -> 4
                          [] OTHER -> 0
        immLen == IF Op2(ins).kind = "Immediate" THEN SizeBits(Op2(ins).size) \div 8 ELSE 0
        dispAt == OpcodeAt(bytes) + modrmLen + sibLen + 1
        immAt == dispAt + dispLen
    IN /\ ByteAt(bytes, OpcodeAt(bytes)) \in MovOpcodes
       /\ Len(bytes) = immAt - 1 + immLen
       /\ modrmLen = 1 => (ModOf(bytes) = 3 <=> IsRegReg(ins))
       /\ (HasMemory(ins) \/ IsMemImm(ins)) =>
            SubSeq(bytes, dispAt, immAt - 1) = LittleEndian(ea.disp, dispLen)
       /\ Op2(ins).kind = "Immediate" =>
            SubSeq(bytes, immAt, immAt + immLen - 1) = ImmediateBytes(Op2(ins))

----------------------------------------------------------------------------
(* C2: MOV between two registers                                           *)

TwoRegisters(ins) == IsRegReg(ins) /\ Op1(ins).reg.size = Op2(ins).reg.size

\* Opcode 88 (8-bit) or 89, then ModRM = 11 src dst and nothing more; REX.W
\* exactly for 64-bit; no REX byte at all below 64-bit with both registers
\* numbered below 8.
MovRegRegAsClaimed(ins, bytes) ==
    LET d == Op1(ins).reg
        s == Op2(ins).reg
    IN /\ ByteAt(bytes, OpcodeAt(bytes)) = (IF d.size = "Byte" THEN 136 ELSE 137)
       /\ ByteAt(bytes, ModRMAt(bytes)) = 3 * 64 + Low3(s) * 8 + Low3(d)
       /\ Len(bytes) = ModRMAt(bytes)
       /\ RexFlag(bytes, REW_W) = 1 <=> d.size = "Qword"
       /\ (d.size # "Qword" /\ d.index < 8 /\ s.index < 8) => ~ HasRex(bytes)

\* C2: for MOV with two register operands of equal width encode() emits opcode
\* 0x88 / 0x89 and ModRM (0b11 << 6) | (src << 3) | dst, REX.W exactly when the
\* width is 64-bit, and no REX below 64-bit when both registers are below 8.
C2_MovRegisterRegister ==
    (Called /\ TwoRegisters(instruction)) =>
        (pc = "returned" /\ MovRegRegAsClaimed(instruction, output))

\* encode() was called with mov rax, rcx (encode.rs:75) and panicked.
C2_Called == pc = "panicked" /\ instruction = Mov(R(RAX), R(RCX))

----------------------------------------------------------------------------
(* C3: the REX bits of R8..R15                                             *)

\* The registers in the three extensible fields: ModRM.reg, SIB.index and
\* ModRM.r/m or SIB.base (Op/En MR and RM, encode.rs:66-70, 157-161).
RegField(ins) == IF IsRegReg(ins) THEN Op2(ins).reg ELSE RegisterOf(ins)

IndexField(ins, ea) == IF HasMemory(ins) THEN ea.index ELSE NoRegister

BaseField(ins, ea) == IF IsRegReg(ins) THEN Op1(ins).reg ELSE ea.base

RexAsClaimed(ins, ea, bytes) ==
    /\ HasRex(bytes)
    /\ RexFlag(bytes, REW_R) = Ext(RegField(ins))
    /\ RexFlag(bytes, REW_X) = Ext(IndexField(ins, ea))
    /\ RexFlag(bytes, REW_B) = Ext(BaseField(ins, ea))

\* C3: an instruction using a register numbered 8 or more is encoded with a REX
\* byte whose R, X, B bits are set for the fields holding such a register and
\* clear for the fields holding a register below 8.
C3_RexExtension ==
    \A ea \in AddressesOf(instruction) :
        (/\ Called
         /\ TwoRegisters(instruction) \/ HasMemory(instruction)
         /\ Encodable(instruction, ea)
         /\ UsesExtended(instruction, ea)) =>
            (pc = "returned" /\ RexAsClaimed(instruction, ea, output))

\* encode() was called with mov r9, rcx (encode.rs:85) and panicked.
C3_Called == pc = "panicked" /\ instruction = Mov(R(R9), R(RCX))

----------------------------------------------------------------------------
(* C5: the width of the displacement                                       *)

\* mod=00 and no displacement bytes for d = 0 unless the base is RBP/R13;
\* mod=01 and one byte for d in -128..127; mod=10 and four bytes otherwise.
DisplacementAsClaimed(ea, bytes) ==
    IF ea.disp = 0 /\ Low3(ea.base) # 5
    THEN ModOf(bytes) = 0 /\ TailOf(bytes) = << >>
    ELSE IF ea.disp \in -128..127
         THEN ModOf(bytes) = 1 /\ TailOf(bytes) = LittleEndian(ea.disp, 1)
         ELSE ModOf(bytes) = 2 /\ TailOf(bytes) = LittleEndian(ea.disp, 4)

\* C5: for a memory operand with a base register and displacement d the
\* encoding has mod=00 and no displacement bytes when d = 0 and the base is not
\* RBP/R13, mod=01 and one byte when d fits in a signed byte, mod=10 and four
\* bytes otherwise.
C5_DisplacementWidth ==
    \A ea \in AddressesOf(instruction) :
        (Called /\ HasMemory(instruction) /\ ~ HasStackIndex(ea)) =>
            (pc = "returned" /\ DisplacementAsClaimed(ea, output))

\* encode() was called with the Instruction of mov rax, [rbx + 0x10]
\* (encode.rs:247) and panicked.
C5_Called == pc = "panicked" /\ instruction = Mov(R(RAX), OperandOf(Based(RBX, 16)))

----------------------------------------------------------------------------
(* C6: the length does not depend on the values                            *)

\* The shape of an operand: its kind, registers and widths, without the value
\* of its immediate.
ShapeOf(op) == WithValue(op, 0)

SameShape(a, b) ==
    /\ a.mnemonic = b.mnemonic
    /\ ShapeOf(Op1(a)) = ShapeOf(Op1(b))
    /\ ShapeOf(Op2(a)) = ShapeOf(Op2(b))

\* C6: two calls of encode() with instructions of one shape (operand kinds,
\* registers and widths) end alike and hand back byte sequences of one length,
\* whatever the immediate values are.  (A displacement is no part of an
\* Instruction: two instructions that differ in it alone are one value.)
C6_LengthFromShape ==
    (/\ Called
     /\ previous # NoCall
     /\ SameShape(previous.instruction, instruction)) =>
        (/\ pc = previous.pc
         /\ Len(output) = Len(previous.output))

\* encode() was called with mov r10d, 0xef and then with mov r10d, 0x12345678
\* (encode.rs:372), two instructions of one shape with different immediates,
\* and ended the same way both times.
C6_Called ==
    /\ Called
    /\ previous.pc = pc
    /\ previous.instruction = Mov(R(Reg(10, "Dword")), ImmediateOperand("Dword", 239))
    /\ instruction = Mov(R(Reg(10, "Dword")), ImmediateOperand("Dword", 305419896))
    /\ SameShape(previous.instruction, instruction)

----------------------------------------------------------------------------
(* C7: RSP or R12 as the base                                              *)

StackBased(ea) == ~ HasIndex(ea) /\ Low3(ea.base) = 4

\* ModRM.r/m = 100, then SIB with index = 100 (none) and base = the base's low
\* three bits, mod by the displacement.
StackBaseAsClaimed(ea, bytes) ==
    /\ RmOf(bytes) = 4
    /\ HasSIB(bytes)
    /\ (SIBOf(bytes) \div 8) % 8 = 4
    /\ SIBOf(bytes) % 8 = Low3(ea.base)
    /\ DisplacementAsClaimed(ea, bytes)

\* C7: with base RSP or R12 and no index the encoding has ModRM.r/m = 100 and a
\* SIB byte with index = 100 and base = the base's low three bits, mod chosen
\* by the displacement.
C7_StackBaseSIB ==
    \A ea \in AddressesOf(instruction) :
        (Called /\ HasMemory(instruction) /\ StackBased(ea)) =>
            (pc = "returned" /\ StackBaseAsClaimed(ea, output))

\* encode() was called with the Instruction of mov r8, [rsp] (encode.rs:338)
\* and panicked.
C7_Called == pc = "panicked" /\ instruction = Mov(R(R8), OperandOf(Based(RSP, 0)))

----------------------------------------------------------------------------
(* C8: RBP or R13 as the base, displacement 0                              *)

FrameBasedZero(ea) ==
    /\ ~ HasStackIndex(ea)
    /\ Low3(ea.base) = 5
    /\ ea.disp = 0

\* C8: with base RBP or R13 and displacement 0 the encoding has mod=01 and the
\* one displacement byte 0x00, with or without an index register.
C8_FrameBaseDisp8 ==
    \A ea \in AddressesOf(instruction) :
        (Called /\ HasMemory(instruction) /\ FrameBasedZero(ea)) =>
            (pc = "returned" /\ ModOf(output) = 1 /\ TailOf(output) = <<0>>)

\* encode() was called with the Instruction of mov r8, [rbp] (encode.rs:255)
\* and panicked.
C8_Called == pc = "panicked" /\ instruction = Mov(R(R8), OperandOf(Based(RBP, 0)))

----------------------------------------------------------------------------
(* C9: the SIB byte of an indexed operand                                  *)

\* 00, 01, 10, 11 for *1, *2, *4, *8 (encode.rs:298-302).
ScaleBits(scale) ==
    CASE scale = 1 -> 0
      [] scale = 2 -> 1
      [] scale = 4 -> 2
      [] scale = 8 -> 3

SIBAsClaimed(ea, bytes) ==
    /\ RmOf(bytes) = 4
    /\ HasSIB(bytes)
    /\ SIBOf(bytes) = ScaleBits(ea.scale) * 64 + Low3(ea.index) * 8 + Low3(ea.base)

\* C9: with an index register the encoding has ModRM.r/m = 100 and the SIB byte
\* (scale_bits << 6) | (index_low3 << 3) | base_low3.
C9_ScaleIndexBase ==
    \A ea \in AddressesOf(instruction) :
        (Called /\ HasMemory(instruction) /\ HasIndex(ea) /\ ~ HasStackIndex(ea)) =>
            (pc = "returned" /\ SIBAsClaimed(ea, output))

\* encode() was called with the Instruction of mov rax, [rcx + rsi*4 + 0x10]
\* (encode.rs:330) and panicked.
C9_Called == pc = "panicked" /\ instruction = Mov(R(RAX), OperandOf(Indexed(RCX, RSI, 4, 16)))

----------------------------------------------------------------------------
(* C10: RSP or R12 as the index                                            *)

\* C10: encoding a memory operand whose index register is RSP or R12 fails
\* with InvalidIndexRegister and returns no bytes, for every base, scale and
\* displacement.
C10_InvalidIndexRegister ==
    \A ea \in AddressesOf(instruction) :
        (Called /\ HasMemory(instruction) /\ HasStackIndex(ea)) =>
            (pc = "failed" /\ error = "InvalidIndexRegister" /\ output = << >>)

\* encode() was called with the Instruction of mov rax, [rcx + rsp*1] and
\* panicked.
C10_Called == pc = "panicked" /\ instruction = Mov(R(RAX), OperandOf(Indexed(RCX, RSP, 1, 0)))

----------------------------------------------------------------------------
(* C11: a label as the memory operand                                      *)

\* mod=00, r/m=101, no SIB, and the four bytes of
\* label - (address + length of the instruction), little-endian.
RipRelativeAsClaimed(ea, address, labels, bytes) ==
    LET target == LabelAddress(labels, ea.label)
    IN /\ ModOf(bytes) = 0
       /\ RmOf(bytes) = 5
       /\ ~ HasSIB(bytes)
       /\ Len(bytes) = ModRMAt(bytes) + 4
       /\ TailOf(bytes) = LittleEndian(target - (address + Len(bytes)), 4)

\* C11: a memory operand that references a label is encoded with mod=00,
\* r/m=101, no SIB byte and the 4-byte little-endian signed displacement
\* label_address - (current_address + length of the instruction); when that
\* difference does not fit in 32 signed bits the call fails with
\* DisplacementOverflow.
C11_RipRelative ==
    \A ea \in LabelAddressesOf(instruction) :
        (Called /\ ea.rel) =>
            IF WithinDisp32(LabelAddress(lable_address_list, ea.label),
                            current_address, RelativeLength(instruction))
            THEN pc = "returned"
                 /\ RipRelativeAsClaimed(ea, current_address, lable_address_list, output)
            ELSE pc = "failed" /\ error = "DisplacementOverflow" /\ output = << >>

\* encode() was called with the Instruction of mov eax, [rel num1] placed
\* after num1..num3 (encode.rs:276) and panicked.
C11_Called ==
    /\ pc = "panicked"
    /\ current_address = 6
    /\ instruction = Mov(R(EAX), OperandOf(LabelAddressOf("Dword", "num1", TRUE)))

----------------------------------------------------------------------------
(* C12: MOV register, immediate                                            *)

\* Opcode B0 + rb (8-bit) or B8 + rd with the register's low three bits, no
\* ModRM: the immediate follows the opcode and ends the instruction; the
\* register's extension bit is REX.B, and REX.R is clear.
MovImmediateAsClaimed(ins, bytes) ==
    LET r == Op1(ins).reg
    IN /\ ByteAt(bytes, OpcodeAt(bytes)) = (IF r.size = "Byte" THEN 176 ELSE 184) + Low3(r)
       /\ SubSeq(bytes, OpcodeAt(bytes) + 1, Len(bytes)) = ImmediateBytes(Op2(ins))
       /\ RexFlag(bytes, REW_B) = Ext(r)
       /\ RexFlag(bytes, REW_R) = 0

\* MOV register, immediate with the immediate in the register's width.
IsMovRegisterImmediate(ins) == IsRegImm(ins) /\ Op2(ins).size = Op1(ins).reg.size

\* C12: for MOV register, immediate encode() emits the opcode 0xB8 (0xB0 for
\* 8-bit) plus the low three bits of the register, no ModRM byte, the
\* register's extension bit in REX.B and not REX.R, and the immediate
\* little-endian in the operand's width, eight bytes for a 64-bit register.
C12_MovRegisterImmediate ==
    (Called /\ IsMovRegisterImmediate(instruction)) =>
        (pc = "returned" /\ MovImmediateAsClaimed(instruction, output))

\* encode() was called with mov rax, 0x1234567890abcdef (encode.rs:368) and panicked.
C12_Called ==
    /\ pc = "panicked"
    /\ instruction = Mov(R(RAX), ImmediateOperand("Qword", Imm64(52719, 37035, 22136, 4660)))

----------------------------------------------------------------------------
(* C13: the 64-bit immediate                                               *)

\* C13: an instruction that carries an Immediate64 operand and is not
\* MOV r64, imm64 fails with InvalidImmediateWidth and returns no bytes.
C13_InvalidImmediateWidth ==
    (Called /\ CarriesImmediate64(instruction) /\ ~ IsMovR64Imm64(instruction)) =>
        (pc = "failed" /\ error = "InvalidImmediateWidth" /\ output = << >>)

\* encode() was called with mov qword [rax], 0x1234567890abcdef (encode.rs:395)
\* and panicked.
C13_Called ==
    /\ pc = "panicked"
    /\ instruction.operands[2].kind = "Immediate"
    /\ instruction.operands[2].size = "Qword"
    /\ instruction = Mov(OperandOf(Based(RAX, 0)),
                         ImmediateOperand("Qword", Imm64(52719, 37035, 22136, 4660)))

----------------------------------------------------------------------------
(* C14: the legacy prefixes                                                *)

\* The operand width of the instruction: that of its register operand, or of
\* the memory access of mov r/m, imm.
OperandWidth(ins) ==
    CASE Op1(ins).kind = "Register" -> Op1(ins).reg.size
      [] Op2(ins).kind = "Register" -> Op2(ins).reg.size
      [] OTHER -> SizeOfBytes(Op1(ins).size)

\* The prefix bytes of the instruction: 0x64 / 0x65 for FS / GS, then 0x66 for
\* a 16-bit operand.
LegacyPrefixesOf(ins, ea) ==
    (CASE ea.segment = "FS" -> <<100>>
       [] ea.segment = "GS" -> <<101>>
       [] OTHER -> << >>)
    \o (IF OperandWidth(ins) = "Word" THEN <<102>> ELSE << >>)

\* bytes starts with exactly these prefixes in this order; what follows is the
\* REX byte, if there is one, and then the opcode.
PrefixesAsClaimed(ins, ea, bytes) ==
    LET n == Len(LegacyPrefixesOf(ins, ea))
    IN /\ SubSeq(bytes, 1, n) = LegacyPrefixesOf(ins, ea)
       /\ ByteAt(bytes, n + 1) \notin LegacyPrefixes
       /\ ByteAt(bytes, n + 1) \in 64..79 \cup MovOpcodes
       /\ ByteAt(bytes, n + 1) \in 64..79 => ByteAt(bytes, n + 2) \in MovOpcodes

\* C14: the bytes encode() returns start with the legacy prefixes in a fixed
\* order, the segment override (0x64 FS, 0x65 GS) before the operand-size
\* override 0x66, the latter exactly when the operand width is 16-bit, and
\* both before the REX byte.
C14_LegacyPrefixOrder ==
    \A ea \in AddressesOf(instruction) :
        (Called /\ Encodable(instruction, ea)) =>
            (pc = "returned" /\ PrefixesAsClaimed(instruction, ea, output))

\* encode() was called with mov r9w, cx (encode.rs:95), an instruction with
\* the operand-size prefix and a REX byte, and panicked.
C14_Called ==
    /\ pc = "panicked"
    /\ instruction = Mov(R(Reg(9, "Word")), R(Reg(1, "Word")))

----------------------------------------------------------------------------
(* C15: bytes or an error value                                            *)

\* The call handed its caller a complete encoding and no error: the fields
\* use up the bytes (none is cut short, nothing follows them).
ReturnedComplete ==
    /\ pc = "returned"
    /\ error = "none"
    /\ \E ea \in AddressesOf(instruction) : WellOrdered(instruction, ea, output)

\* The call handed its caller an error value and no bytes.
ReturnedError ==
    /\ pc = "failed"
    /\ error # "none"
    /\ output = << >>

\* C15: each call of encode() yields either a complete byte sequence or an
\* error value and no bytes; never a truncated byte sequence, never an abort.
C15_BytesOrError == Called => (ReturnedComplete \/ ReturnedError)

\* encode() was called with mov qword [rax], 0x1234567890abcdef, an
\* instruction that is to be refused with an error value (encode.rs:18), and
\* aborted with the panic of todo!().
C15_Called ==
    /\ pc = "panicked"
    /\ output = << >>
    /\ error = "none"
    /\ IsMemImm(instruction)
    /\ CarriesImmediate64(instruction)

----------------------------------------------------------------------------
(* C16: the same arguments, the same bytes                                 *)

SameArguments(a, b) ==
    /\ a.instruction = b.instruction
    /\ a.current_address = b.current_address
    /\ a.lable_address_list = b.lable_address_list

\* C16: two calls of encode() with equal instruction, current_address and
\* label table have the same result, byte for byte, whatever calls were made
\* in between.
C16_Deterministic ==
    \A i \in DOMAIN history : \A j \in DOMAIN history :
        (i < j /\ SameArguments(history[i], history[j])) =>
            (/\ history[i].pc = history[j].pc
             /\ history[i].output = history[j].output
             /\ history[i].error = history[j].error)

\* encode() was called with mov rax, rcx at 0, then with the Instruction of
\* mov rax, [rbx + 0x10] at 6, then again with mov rax, rcx at 0: the first
\* and the third call ended alike.
C16_Called ==
    /\ Len(history) = 3
    /\ SameArguments(history[1], history[3])
    /\ history[1].instruction = Mov(R(RAX), R(RCX))
    /\ history[1].current_address = 0
    /\ history[2].instruction = Mov(R(RAX), OperandOf(Based(RBX, 16)))
    /\ history[2].current_address = 6
    /\ history[1].pc = history[3].pc
    /\ history[1].output = history[3].output

----------------------------------------------------------------------------
(* C17: current_address matters to label operands only                     *)

\* The effective address is no "[label]" and no "[rel label]".
HasNoLabel(ea) == ea.label = "none"

\* The instruction can be one without a label operand: it has no memory
\* operand, or its memory operand stands for an effective address that is no
\* label.  (An Operand::Memory does not say which address it stands for.)
MayHaveNoLabel(ins) ==
    \E ea \in AddressesOf(ins) \cup LabelAddressesOf(ins) : HasNoLabel(ea)

\* C17: two calls of encode() with one instruction that has no label operand,
\* at different values of current_address, have the same result.
C17_AddressIndependent ==
    \A i \in DOMAIN history : \A j \in DOMAIN history :
        (/\ i < j
         /\ history[i].instruction = history[j].instruction
         /\ history[i].current_address # history[j].current_address
         /\ MayHaveNoLabel(history[i].instruction)) =>
            (/\ history[i].pc = history[j].pc
             /\ history[i].output = history[j].output
             /\ history[i].error = history[j].error)

\* encode() was called with the Instruction of mov rax, [rbx + 0x10]
\* (encode.rs:247), whose memory operand references no label, at 0 and then
\* at 6, and ended alike both times.
C17_Called ==
    /\ Len(history) = 2
    /\ history[1].instruction = Mov(R(RAX), OperandOf(Based(RBX, 16)))
    /\ history[2].instruction = history[1].instruction
    /\ HasNoLabel(Based(RBX, 16))
    /\ MayHaveNoLabel(history[1].instruction)
    /\ history[1].current_address = 0
    /\ history[2].current_address = 6
    /\ history[1].pc = history[2].pc
    /\ history[1].output = history[2].output

----------------------------------------------------------------------------
(* C18: every call returns                                                 *)

\* C18: every call of encode() terminates and returns to its caller, with
\* bytes or with an error value.
C18_Returns == (pc = "ready") ~> (pc \in {"returned", "failed"})

\* encode() was called with the Instruction of mov rax, [rbx] (encode.rs:166);
\* the call ended in the panic of todo!() and did not return.
C18_Called ==
    /\ pc = "panicked"
    /\ calls = 1
    /\ instruction = Mov(R(RAX), OperandOf(Based(RBX, 0)))

----------------------------------------------------------------------------
(* C19: the table is built once                                            *)

\* C19: with several threads calling parse(), and so init_instruction_map(),
\* at the same time, init_instruction_map_internal runs once, INSTRUCTION_MAP
\* is None or the complete table, and every thread that reads INSTRUCTION_MAP
\* finds None or the complete table, never a part of it.
C19_BuiltOnce ==
    /\ runs <= 1
    /\ INIT = "complete" => runs = 1
    /\ INSTRUCTION_MAP \in {None, Some(FullTable)}
    /\ \A t \in Threads : thread[t].seen \in {Unread, None, Some(FullTable)}

\* One thread is in its first parse(), inside the assignment of the complete
\* table to INSTRUCTION_MAP; another, which called parse_module_node itself,
\* has read the static during the assignment and found a part of the value.
C19_TornRead ==
    \E t \in Threads : \E u \in Threads \ {t} :
        /\ runs = 1
        /\ thread[t].entry = "parse"
        /\ thread[t].parses = 1
        /\ thread[t].pc = "store"
        /\ thread[t].table = FullTable
        /\ thread[u].entry = "parse_module_node"
        /\ thread[u].seen = Torn

----------------------------------------------------------------------------
(* C20: initialized before the first use, read-only afterwards             *)

\* C20: over any sequence of calls of parse and parse_module_node no lookup
\* runs while INSTRUCTION_MAP is None, and once INSTRUCTION_MAP is initialized
\* no step changes it.
C20_InitializedBeforeUse ==
    /\ [](\A t \in Threads : thread[t].seen # None)
    /\ [][INSTRUCTION_MAP # None => INSTRUCTION_MAP' = INSTRUCTION_MAP]_vars

\* The first call of the process is parse_module_node with a module whose code
\* has (syscall ..): the lookup ran with INSTRUCTION_MAP = None and panicked.
C20_Uninitialized ==
    \E t \in Threads :
        /\ INIT = "incomplete"
        /\ runs = 0
        /\ thread[t].entry = "parse_module_node"
        /\ thread[t].parses = 1
        /\ thread[t].text = "syscall"
        /\ thread[t].seen = None
        /\ thread[t].pc = "panicked"
        /\ \A u \in Threads \ {t} : thread[u] = Idle

----------------------------------------------------------------------------
(* parser.rs: tokens and results                                           *)

\* enum Token as parser.rs uses it (parser.rs:2221-2357): LeftParen,
\* RightParen, Symbol(String), Identifier(String), Number(NumberToken),
\* String_(String), ByteData(Vec<u8>).  text is the token's characters, one
\* string per character, except that a Symbol's text is its one word and an
\* Identifier's text is its name path, one string per name: the name contains
\* NAME_PATH_SEPARATOR exactly if it has more than one.
LeftParen == [type |-> "LeftParen", form |-> "none", text |-> << >>, bytes |-> << >>]

RightParen == [type |-> "RightParen", form |-> "none", text |-> << >>, bytes |-> << >>]

Symbol(name) == [type |-> "Symbol", form |-> "none", text |-> <<name>>, bytes |-> << >>]

Identifier(name_path) == [type |-> "Identifier", form |-> "none", text |-> name_path, bytes |-> << >>]

String_(chars) == [type |-> "String", form |-> "none", text |-> chars, bytes |-> << >>]

ByteData(data) == [type |-> "ByteData", form |-> "none", text |-> << >>, bytes |-> data]

\* Token::Number(NumberToken): form is the variant of NumberToken, one of
\* Decimal, Hex, Binary, HexFloat (parser.rs:2411-2428), text its digits.
Number(form, digits) == [type |-> "Number", form |-> form, text |-> digits, bytes |-> << >>]

\* A test that finds the separator in no name.
contains_nothing(name) == FALSE

\* name.contains(NAME_PATH_SEPARATOR) (parser.rs:50, 223, 427, 1593, 1938,
\* 2137, 2175).
contains_separator(name) == Len(name) > 1

\* Result<T, ParseError>: Ok(value) with the iterator as the call left it,
\* Err(ParseError { message }); and a call that does not return.
Ok(value, iter) == [tag |-> "Ok", value |-> value, iter |-> iter, message |-> ""]

Err(message) == [tag |-> "Err", value |-> << >>, iter |-> << >>, message |-> message]

Aborted(message) == [tag |-> "Panic", value |-> << >>, iter |-> << >>, message |-> message]

\* A function body is a chain of steps.  Let is `let v = e;`: in the step
\* [v \in {e} |-> rest], v is the value of the expression e in the rest of
\* the body.
Let(step) == step[CHOOSE v \in DOMAIN step : TRUE]

\* The `?` operator: a result that is not Ok is returned to the caller at
\* once, and otherwise the function goes on with it.  TryOr is `?` after
\* map_err, which replaces the error.
Try(r, rest) == IF r.tag # "Ok" THEN r ELSE rest

TryOr(r, e, rest) == IF r.tag # "Ok" THEN e ELSE rest

\* Option<T>.
OptionNone == [tag |-> "None", value |-> << >>]

OptionSome(value) == [tag |-> "Some", value |-> value]

----------------------------------------------------------------------------
(* parser.rs: integer literals (parse_u16_string, parse_u32_string,         *)
(* parse_u64_string, parser.rs:2377-2459)                                  *)

\* An unsigned integer of 16 * n bits is the sequence of its n 16-bit limbs,
\* the least significant first: u16 has one, u32 two, u64 four.
Limb == 65536

Zero(n) == [k \in 1..n |-> 0]

RECURSIVE Reverse(_)
Reverse(s) == IF s = << >> THEN << >> ELSE Append(Reverse(Tail(s)), Head(s))

\* char::to_digit(radix) as from_str_radix uses it: the value of the digit c,
\* upper or lower case, or -1 for a character that is none.
DigitChars == <<"0", "1", "2", "3", "4", "5", "6", "7", "8", "9",
                "a", "b", "c", "d", "e", "f">>

UpperDigitChars == <<"0", "1", "2", "3", "4", "5", "6", "7", "8", "9",
                     "A", "B", "C", "D", "E", "F">>

to_digit(c, radix) ==
    LET found == {k \in 1..radix : DigitChars[k] = c \/ UpperDigitChars[k] = c}
    IN IF found = {} THEN -1 ELSE (CHOOSE k \in found : TRUE) - 1

\* limbs * radix + carry, limb by limb: the product's limbs and the carry out
\* of the last one (checked_mul and checked_add of from_str_radix).
RECURSIVE MulAdd(_, _, _)
MulAdd(limbs, radix, carry) ==
    IF limbs = << >>
    THEN [limbs |-> << >>, carry |-> carry]
    ELSE LET t == Head(limbs) * radix + carry
             rest == MulAdd(Tail(limbs), radix, t \div Limb)
         IN [limbs |-> <<t % Limb>> \o rest.limbs, carry |-> rest.carry]

\* The digits of src accumulated into n limbs: "invalid" at a character that
\* is no digit of the radix, "overflow" once the value needs more than n limbs.
RECURSIVE Accumulate(_, _, _)
Accumulate(src, radix, acc) ==
    IF src = << >>
    THEN [error |-> "none", limbs |-> acc]
    ELSE LET d == to_digit(Head(src), radix)
             next == MulAdd(acc, radix, d)
         IN IF d < 0 THEN [error |-> "invalid", limbs |-> acc]
            ELSE IF next.carry # 0 THEN [error |-> "overflow", limbs |-> acc]
            ELSE Accumulate(Tail(src), radix, next.limbs)

\* The two's complement of limbs: what `as u32` makes of a negative i32.
RECURSIVE Negate(_, _)
Negate(limbs, carry) ==
    IF limbs = << >>
    THEN << >>
    ELSE LET t == (Limb - 1 - Head(limbs)) + carry
         IN <<t % Limb>> \o Negate(Tail(limbs), t \div Limb)

IsZero(limbs) == \A k \in 1..Len(limbs) : limbs[k] = 0

\* uN::from_str_radix(src, radix) and iN::from_str_radix(src, radix) followed
\* by `as uN`, for N = 16 * n: the empty string, a sign alone, a character
\* that is no digit and a value out of the type's range are errors; a leading
\* '+' is accepted, a leading '-' by the signed types only.
from_str_radix(src, radix, n, signed) ==
    IF src = << >> THEN [error |-> "empty", limbs |-> Zero(n)]
    ELSE IF Head(src) \in {"+", "-"} /\ Tail(src) = << >> THEN [error |-> "invalid", limbs |-> Zero(n)]
    ELSE Let([negative \in {signed /\ Head(src) = "-"} |->
         Let([digits \in {IF Head(src) = "+" \/ negative THEN Tail(src) ELSE src} |->
         Let([r \in {Accumulate(digits, radix, Zero(n))} |->
         IF r.error # "none" THEN [error |-> r.error, limbs |-> Zero(n)]
         ELSE IF ~signed THEN r
         ELSE Let([top \in {r.limbs[n]} |->
              Let([low \in {SubSeq(r.limbs, 1, n - 1)} |->
              IF ~negative
              THEN IF top >= Limb \div 2 THEN [error |-> "overflow", limbs |-> Zero(n)] ELSE r
              ELSE IF top > Limb \div 2 \/ (top = Limb \div 2 /\ ~IsZero(low))
                   THEN [error |-> "overflow", limbs |-> Zero(n)]
                   ELSE [error |-> "none", limbs |-> Negate(r.limbs, 1)]])])])])])

\* ns.retain(|c| c != '_') (parser.rs:2414).
retain(ns) == SelectSeq(ns, LAMBDA c : c # "_")

\* The three functions are one text with the integer type changed: n limbs,
\* Hex and Binary read as the unsigned type, Decimal as the signed type of the
\* same width and then cast (parser.rs:2387-2397, 2415-2425, 2443-2453).
parse_uN_string(number_token, n, message) ==
    Let([ns \in {retain(number_token.text)} |->
    Let([r \in {CASE number_token.form = "Hex" -> from_str_radix(ns, 16, n, FALSE)
          [] number_token.form = "Binary" -> from_str_radix(ns, 2, n, FALSE)
          [] number_token.form = "Decimal" -> from_str_radix(ns, 10, n, TRUE)
          [] number_token.form = "HexFloat" -> [error |-> "hexfloat", limbs |-> Zero(n)]} |->
    IF r.error # "none" THEN Err(message) ELSE Ok(r.limbs, << >>)])])

parse_u16_string(number_token) ==
    parse_uN_string(number_token, 1, "is not a valid 16-bit integer literal.")

parse_u32_string(number_token) ==
    parse_uN_string(number_token, 2, "is not a valid 32-bit integer literal.")

parse_u64_string(number_token) ==
    parse_uN_string(number_token, 4, "is not a valid 64-bit integer literal.")

\* The bytes of an integer, the most significant first.
RECURSIVE to_be_bytes(_)
to_be_bytes(limbs) ==
    IF limbs = << >> THEN << >>
    ELSE to_be_bytes(Tail(limbs)) \o <<Head(limbs) \div 256, Head(limbs) % 256>>

\* value.to_le_bytes() (parser.rs:1734, 1746, 1758, 1770).
RECURSIVE to_le_bytes(_)
to_le_bytes(limbs) ==
    IF limbs = << >> THEN << >>
    ELSE <<Head(limbs) % 256, Head(limbs) \div 256>> \o to_le_bytes(Tail(limbs))

\* The spelling of an unsigned integer in a radix, as a writer of assembly
\* text puts it down: its digits, the most significant first, without sign,
\* prefix or leading zeros.
RECURSIVE DivLimbs(_, _, _)
DivLimbs(bigEndian, radix, rem) ==
    IF bigEndian = << >>
    THEN [quotient |-> << >>, rem |-> rem]
    ELSE LET t == rem * Limb + Head(bigEndian)
             rest == DivLimbs(Tail(bigEndian), radix, t % radix)
         IN [quotient |-> <<t \div radix>> \o rest.quotient, rem |-> rest.rem]

RECURSIVE SpellingBE(_, _)
SpellingBE(bigEndian, radix) ==
    IF IsZero(bigEndian) THEN << >>
    ELSE LET d == DivLimbs(bigEndian, radix, 0)
         IN Append(SpellingBE(d.quotient, radix), DigitChars[d.rem + 1])

Spelling(limbs, radix) ==
    IF IsZero(limbs) THEN <<"0">> ELSE SpellingBE(Reverse(limbs), radix)

RadixOf(form) ==
    CASE form = "Decimal" -> 10
      [] form = "Hex" -> 16
      [] form = "Binary" -> 2

IntegerForms == {"Decimal", "Hex", "Binary"}

\* The 32-bit values the callers pass: 0, 1, 255, 2^16, 2^31 - 1, 2^31 and
\* 2^32 - 1; and the 64-bit ones: 0, 255, 2^32, 2^63 - 1, 2^63 and 2^64 - 1.
U32Values == {<<0, 0>>, <<1, 0>>, <<255, 0>>, <<0, 1>>, <<65535, 32767>>,
              <<0, 32768>>, <<65535, 65535>>}

U64Values == {<<0, 0, 0, 0>>, <<255, 0, 0, 0>>, <<0, 0, 1, 0>>,
              <<65535, 65535, 65535, 32767>>, <<0, 0, 0, 32768>>,
              <<65535, 65535, 65535, 65535>>}

----------------------------------------------------------------------------
(* parser.rs: floating point literals (parse_f32_string, parse_f64_string, *)
(* parser.rs:2461-2503).  A float is the sequence of the 16-bit limbs of   *)
(* its bits, the least significant first: f32 has two, f64 four.  The      *)
(* numbers on the way are naturals of any size, sequences of limbs as well.*)

\* The limbs of a natural below 2^16.
Nat16(k) == IF k = 0 THEN << >> ELSE <<k>>

\* The number of limbs up to the last one that is not 0.
Limbs(a) ==
    IF \A k \in DOMAIN a : a[k] = 0 THEN 0
    ELSE CHOOSE n \in DOMAIN a : a[n] # 0 /\ \A k \in DOMAIN a : k > n => a[k] = 0

\* Limb k of a, which is 0 beyond its length.
LimbAt(a, k) == IF k \in DOMAIN a THEN a[k] ELSE 0

Trim(a) == SubSeq(a, 1, Limbs(a))

\* The number of bits of a natural below 2^16, and of a natural.
BitLength16(x) == CHOOSE b \in 0..16 : x < 2 ^ b /\ (b = 0 \/ x >= 2 ^ (b - 1))

BitLength(a) ==
    IF Limbs(a) = 0 THEN 0 ELSE 16 * (Limbs(a) - 1) + BitLength16(a[Limbs(a)])

\* a * k + carry for k up to 2^15, the product as long as it needs to be:
\* the limbs lo..hi of the product and the carry out of them, the lower half
\* before the upper.
RECURSIVE MulRange(_, _, _, _, _)
MulRange(a, k, carry, lo, hi) ==
    IF lo > hi THEN [limbs |-> << >>, carry |-> carry]
    ELSE IF lo = hi
    THEN [limbs |-> <<(a[lo] * k + carry) % Limb>>, carry |-> (a[lo] * k + carry) \div Limb]
    ELSE Let([low \in {MulRange(a, k, carry, lo, (lo + hi) \div 2)} |->
         Let([high \in {MulRange(a, k, low.carry, (lo + hi) \div 2 + 1, hi)} |->
         [limbs |-> low.limbs \o high.limbs, carry |-> high.carry]])])

Extended(product) == Trim(product.limbs \o <<product.carry>>)

MulSmall(a, k, carry) == Extended(MulRange(a, k, carry, 1, Len(a)))

\* a * 2^s: by whole limbs, then by the bits that are left.
ShiftLeft(a, s) ==
    Trim([k \in 1..(Len(a) + s \div 16 + 1) |->
            ((LimbAt(a, k - (s \div 16)) * (2 ^ (s % 16))) % Limb)
            + ((LimbAt(a, k - (s \div 16) - 1) * (2 ^ (s % 16))) \div Limb)])

\* a / 2, rounded down.
ShiftRight1(a) ==
    Trim([k \in 1..Len(a) |-> (a[k] \div 2) + ((LimbAt(a, k + 1) % 2) * (Limb \div 2))])

\* -1, 0, 1 as a is less than, equal to or greater than b.
CompareAt(a, b, n) == IF LimbAt(a, n) > LimbAt(b, n) THEN 1 ELSE -1

Compare(a, b) ==
    IF \A k \in 1..(Len(a) + Len(b)) : LimbAt(a, k) = LimbAt(b, k) THEN 0
    ELSE CompareAt(a, b, CHOOSE n \in 1..(Len(a) + Len(b)) :
                            /\ LimbAt(a, n) # LimbAt(b, n)
                            /\ \A k \in 1..(Len(a) + Len(b)) :
                                  k > n => LimbAt(a, k) = LimbAt(b, k))

\* a - b for a >= b: limb k borrows when the limbs of a below it are less
\* than those of b.
Subtract(a, b) ==
    Trim([k \in 1..Len(a) |->
            (a[k] - LimbAt(b, k)
             - (IF Compare(SubSeq(a, 1, k - 1), SubSeq(b, 1, IF k - 1 < Len(b) THEN k - 1 ELSE Len(b))) < 0
                THEN 1 ELSE 0)
             + 2 * Limb) % Limb])

\* a + 1: the limbs below the first that is not 2^16 - 1 turn to 0.
Carried(a) ==
    IF \A k \in 1..Len(a) : a[k] = Limb - 1 THEN Len(a) + 1
    ELSE CHOOSE n \in 1..Len(a) : a[n] # Limb - 1 /\ \A k \in 1..(n - 1) : a[k] = Limb - 1

Increment(a) ==
    [k \in 1..(IF Carried(a) > Len(a) THEN Len(a) + 1 ELSE Len(a)) |->
        IF k < Carried(a) THEN 0
        ELSE IF k = Carried(a) THEN LimbAt(a, k) + 1
        ELSE a[k]]

\* a * 10^e, by halves of e.
RECURSIVE TimesPow10(_, _)
TimesPow10(a, e) ==
    IF e <= 4 THEN MulSmall(a, 10 ^ e, 0)
    ELSE Let([half \in {TimesPow10(a, e \div 2)} |-> TimesPow10(half, e - e \div 2)])

\* The quotient and the remainder of num by den, for a quotient below
\* 2^(bits+1): one bit of the quotient at a time from the top, t being den
\* times the weight of the bit; n steps are done by halves.
DivideStep(state) ==
    IF Compare(state.rem, state.t) >= 0
    THEN [rem |-> Subtract(state.rem, state.t), t |-> ShiftRight1(state.t),
          quotient |-> MulSmall(state.quotient, 2, 1)]
    ELSE [rem |-> state.rem, t |-> ShiftRight1(state.t),
          quotient |-> MulSmall(state.quotient, 2, 0)]

RECURSIVE DivideSteps(_, _)
DivideSteps(state, n) ==
    IF n = 0 THEN state
    ELSE IF n = 1 THEN DivideStep(state)
    ELSE Let([half \in {DivideSteps(state, n \div 2)} |-> DivideSteps(half, n - n \div 2)])

LongDivide(num, den, bits) ==
    DivideSteps([rem |-> num, t |-> ShiftLeft(den, bits), quotient |-> << >>], bits + 1)

\* The formats: p bits of precision, the exponent of the least subnormal
\* and the greatest exponent (f32: 24, 2^-149, 2^127; f64: 53, 2^-1074,
\* 2^1023), n limbs.
Binary32 == [p |-> 24, least |-> -149, greatest |-> 127, n |-> 2]

Binary64 == [p |-> 53, least |-> -1074, greatest |-> 1023, n |-> 4]

\* The limbs of the bits of a float: the sign, then the exponent field, then
\* the fraction.
Sign(negative) == IF negative THEN Limb \div 2 ELSE 0

\* The place of the exponent field in the top limb: 2^7 in f32, 2^4 in f64.
ExponentUnit(format) == 2 ^ ((format.p - 1) % 16)

Infinity(format, negative) ==
    [k \in 1..format.n |->
        IF k = format.n
        THEN Sign(negative) + (Limb \div 2 - ExponentUnit(format))
        ELSE 0]

\* f32::NAN and f64::NAN: the quiet NaN, 0x7fc00000 and 0x7ff8000000000000.
NaN(format, negative) ==
    [k \in 1..format.n |->
        IF k = format.n
        THEN Sign(negative) + (Limb \div 2 - ExponentUnit(format) \div 2)
        ELSE 0]

\* The float m * 2^k for m of at most p bits, k not below the exponent of
\* the least subnormal, and m of p bits unless k is that exponent: the
\* exponent field is k - least + 1 for p bits and 0 for fewer, and adding m
\* to (field - 1) * 2^(p-1) puts the fraction in place.
Pack(format, negative, m, k) ==
    IF BitLength(m) = format.p /\ k + format.p - 1 > format.greatest
    THEN Infinity(format, negative)
    ELSE [i \in 1..format.n |->
            LimbAt(m, i)
            + (IF i = format.n
               THEN Sign(negative)
                    + (IF BitLength(m) = format.p THEN (k - format.least) * ExponentUnit(format) ELSE 0)
               ELSE 0)]

\* q rounded to the nearest, a tie to the even one: rem is what the division
\* by d left.
Nearest(q, rem, d) ==
    IF Compare(ShiftLeft(rem, 1), d) > 0
       \/ (Compare(ShiftLeft(rem, 1), d) = 0 /\ (LimbAt(q, 1) % 2) = 1)
    THEN Increment(q)
    ELSE q

\* The float nearest to num / den, num and den not 0.  k is the exponent at
\* which the quotient num / (den * 2^k) has p bits, or that of the least
\* subnormal when that one is greater; the first estimate of it, from the
\* numbers of bits, can be one too small.
Scaled(num, den, k) ==
    IF k >= 0 THEN [num |-> num, den |-> ShiftLeft(den, k)]
    ELSE [num |-> ShiftLeft(num, -k), den |-> den]

Quotient(format, s) == LongDivide(s.num, s.den, format.p)

Estimate(format, num, den) ==
    IF BitLength(num) - BitLength(den) - format.p < format.least
    THEN format.least
    ELSE BitLength(num) - BitLength(den) - format.p

Exponent(format, num, den) ==
    Let([estimate \in {Estimate(format, num, den)} |->
    IF BitLength(Quotient(format, Scaled(num, den, estimate)).quotient) > format.p
    THEN estimate + 1
    ELSE estimate])

Rounded(format, s) ==
    Let([division \in {Quotient(format, s)} |->
        Nearest(Trim(division.quotient), division.rem, s.den)])

Ratio(format, negative, num, den) ==
    Let([exponent \in {Exponent(format, num, den)} |->
    Let([mantissa \in {Rounded(format, Scaled(num, den, exponent))} |->
    IF BitLength(mantissa) > format.p
    THEN Pack(format, negative, ShiftRight1(mantissa), exponent + 1)
    ELSE Pack(format, negative, mantissa, exponent)])])

\* The float nearest to m * 10^e and to m * 2^e.  A number that is 2^1024
\* or more whatever its digits are is infinite, one below 2^-1076 is zero,
\* without the arithmetic: 10^e is between 2^(3321 * e / 1000) and the power
\* of two after it.
Zero_(format, negative) == Pack(format, negative, << >>, format.least)

Binary_(format, negative, m, e) ==
    IF Limbs(m) = 0 THEN Zero_(format, negative)
    ELSE IF BitLength(m) - 1 + e >= 1024 THEN Infinity(format, negative)
    ELSE IF BitLength(m) + e < -1076 THEN Zero_(format, negative)
    ELSE IF e >= 0 THEN Ratio(format, negative, ShiftLeft(m, e), <<1>>)
    ELSE Ratio(format, negative, m, ShiftLeft(<<1>>, -e))

Decimal_(format, negative, m, e) ==
    IF Limbs(m) = 0 THEN Zero_(format, negative)
    ELSE IF e >= 0 /\ BitLength(m) - 1 + (3321 * e) \div 1000 >= 1024
    THEN Infinity(format, negative)
    ELSE IF e < 0 /\ BitLength(m) + (3321 * e) \div 1000 + 1 < -1076
    THEN Zero_(format, negative)
    ELSE IF e >= 0 THEN Ratio(format, negative, TimesPow10(m, e), <<1>>)
    ELSE Ratio(format, negative, m, TimesPow10(<<1>>, -e))

\* The digits of radix at the head of s.
Digits(s, radix) ==
    SubSeq(s, 1, CHOOSE n \in 0..Len(s) :
                    /\ \A k \in 1..n : to_digit(s[k], radix) >= 0
                    /\ n = Len(s) \/ to_digit(s[n + 1], radix) < 0)

\* The natural that the digits lo..hi spell after those that spelled acc, the
\* lower half before the upper.
RECURSIVE NaturalRange(_, _, _, _, _)
NaturalRange(digits, radix, acc, lo, hi) ==
    IF lo > hi THEN acc
    ELSE IF lo = hi THEN MulSmall(acc, radix, to_digit(digits[lo], radix))
    ELSE Let([low \in {NaturalRange(digits, radix, acc, lo, (lo + hi) \div 2)} |->
         NaturalRange(digits, radix, low, (lo + hi) \div 2 + 1, hi)])

Natural(digits, radix) == NaturalRange(digits, radix, << >>, 1, Len(digits))

\* The exponent that digits spell: one of more than five digits after its
\* leading zeros counts as 10^5, which is beyond every float already.
Significant(digits) ==
    SubSeq(digits, (CHOOSE n \in 0..Len(digits) :
                        /\ \A k \in 1..n : digits[k] = "0"
                        /\ n = Len(digits) \/ digits[n + 1] # "0") + 1, Len(digits))

Small(a) == LimbAt(a, 1) + LimbAt(a, 2) * Limb

Saturating(digits) ==
    IF Len(Significant(digits)) > 5 THEN 10 ^ 5
    ELSE Small(Natural(Significant(digits), 10))

\* [sign] digits of an exponent: its value, invalid without a digit or with
\* anything after the digits.
SignedExponent(s) ==
    Let([unsigned \in {IF s # << >> /\ Head(s) \in {"+", "-"} THEN Tail(s) ELSE s} |->
    IF unsigned = << >> \/ Digits(unsigned, 10) # unsigned THEN [valid |-> FALSE, value |-> 0]
    ELSE IF Head(s) = "-" THEN [valid |-> TRUE, value |-> - Saturating(unsigned)]
    ELSE [valid |-> TRUE, value |-> Saturating(unsigned)]])

\* s.eq_ignore_ascii_case(word), for the words inf, infinity and nan.
to_ascii_lowercase(c) ==
    CASE c = "I" -> "i"
      [] c = "N" -> "n"
      [] c = "F" -> "f"
      [] c = "T" -> "t"
      [] c = "Y" -> "y"
      [] c = "A" -> "a"
      [] OTHER -> c

eq_ignore_ascii_case(s, word) ==
    /\ Len(s) = Len(word)
    /\ \A k \in 1..Len(word) : to_ascii_lowercase(s[k]) = word[k]

Invalid == [error |-> "invalid", limbs |-> << >>]

Valid(limbs) == [error |-> "none", limbs |-> limbs]

\* digits [. digits] [e [sign] digits] with a digit before the exponent: int
\* and frac are the digits around the point, rest is what follows them.
Number_(format, negative, int, frac, rest) ==
    IF int \o frac = << >> THEN Invalid
    ELSE IF rest = << >>
    THEN Valid(Decimal_(format, negative, Natural(int \o frac, 10), - Len(frac)))
    ELSE IF Head(rest) \notin {"e", "E"} THEN Invalid
    ELSE Let([exp \in {SignedExponent(Tail(rest))} |->
         IF ~ exp.valid THEN Invalid
         ELSE Valid(Decimal_(format, negative, Natural(int \o frac, 10),
                             exp.value - Len(frac)))])

Fraction(format, negative, int, s) ==
    IF s # << >> /\ Head(s) = "."
    THEN Let([digits \in {Digits(Tail(s), 10)} |->
         Number_(format, negative, int, digits, SubSeq(s, Len(digits) + 2, Len(s)))])
    ELSE Number_(format, negative, int, << >>, s)

\* <f32 as FromStr>::from_str and <f64 as FromStr>::from_str, which
\* str::parse calls (parser.rs:2476, 2498): an optional sign, then inf,
\* infinity or nan in any case, or a decimal number.
from_str(src, format) ==
    IF src = << >> THEN Invalid
    ELSE Let([minus \in {Head(src) = "-"} |->
         Let([unsigned \in {IF Head(src) \in {"+", "-"} THEN Tail(src) ELSE src} |->
         IF unsigned = << >> THEN Invalid
         ELSE IF eq_ignore_ascii_case(unsigned, <<"i", "n", "f">>)
                 \/ eq_ignore_ascii_case(unsigned, <<"i", "n", "f", "i", "n", "i", "t", "y">>)
         THEN Valid(Infinity(format, minus))
         ELSE IF eq_ignore_ascii_case(unsigned, <<"n", "a", "n">>)
         THEN Valid(NaN(format, minus))
         ELSE Let([digits \in {Digits(unsigned, 10)} |->
              Fraction(format, minus, digits,
                       SubSeq(unsigned, Len(digits) + 1, Len(unsigned)))])])])

\* hexfloat2::parse (parser.rs:2471, 2493): [sign] 0x hex [. hex] [p [sign]
\* digits], with a hexadecimal digit before the exponent, rounded to the
\* nearest float of the format.
HexNumber(format, negative, int, frac, rest) ==
    IF int \o frac = << >> THEN Invalid
    ELSE IF rest = << >>
    THEN Valid(Binary_(format, negative, Natural(int \o frac, 16), - 4 * Len(frac)))
    ELSE IF Head(rest) \notin {"p", "P"} THEN Invalid
    ELSE Let([exp \in {SignedExponent(Tail(rest))} |->
         IF ~ exp.valid THEN Invalid
         ELSE Valid(Binary_(format, negative, Natural(int \o frac, 16),
                            exp.value - 4 * Len(frac)))])

HexFraction(format, negative, int, s) ==
    IF s # << >> /\ Head(s) = "."
    THEN Let([digits \in {Digits(Tail(s), 16)} |->
         HexNumber(format, negative, int, digits, SubSeq(s, Len(digits) + 2, Len(s)))])
    ELSE HexNumber(format, negative, int, << >>, s)

hexfloat2_parse(src, format) ==
    IF src = << >> THEN Invalid
    ELSE Let([minus \in {Head(src) = "-"} |->
         Let([unsigned \in {IF Head(src) \in {"+", "-"} THEN Tail(src) ELSE src} |->
         IF Len(unsigned) < 2 \/ unsigned[1] # "0" \/ unsigned[2] \notin {"x", "X"}
         THEN Invalid
         ELSE Let([digits \in {Digits(SubSeq(unsigned, 3, Len(unsigned)), 16)} |->
              HexFraction(format, minus, digits,
                          SubSeq(unsigned, Len(digits) + 3, Len(unsigned)))])])])

\* parse_f32_string and parse_f64_string (parser.rs:2461-2503): a Decimal
\* token is read by str::parse and a HexFloat token by hexfloat2::parse, both
\* after the underscores are removed; Hex and Binary tokens are errors.  The
\* value is the float's bits, the least significant 16 first.
parse_fN_string(number_token, format, message) ==
    Let([ns \in {retain(number_token.text)} |->
    Let([parsed \in {CASE number_token.form = "HexFloat" -> hexfloat2_parse(ns, format)
          [] number_token.form = "Decimal" -> from_str(ns, format)
          [] number_token.form = "Hex" -> Invalid
          [] number_token.form = "Binary" -> Invalid} |->
    IF parsed.error # "none" THEN Err(message) ELSE Ok(parsed.limbs, << >>)])])

parse_f32_string(number_token) ==
    parse_fN_string(number_token, Binary32, "is not a valid 32-bit floating point literal.")

parse_f64_string(number_token) ==
    parse_fN_string(number_token, Binary64, "is not a valid 64-bit floating point literal.")


----------------------------------------------------------------------------
(* parser.rs: the helper functions (parser.rs:2221-2365).  iter is the      *)
(* sequence of the tokens the iterator has yet to yield; a function that   *)
(* advances the iterator returns the rest.                                 *)

\* iter.peek(k): the token k places ahead, if there is one.
HasToken(iter, k) == Len(iter) > k

peek(iter, k) == iter[k + 1]

PeekIs(iter, k, type) == HasToken(iter, k) /\ peek(iter, k).type = type

\* iter.look_ahead_equals(k, &token) and token == expect_token: tokens of
\* different kinds are different.
TokenEquals(a, b) == a.type = b.type /\ a.form = b.form /\ a.text = b.text /\ a.bytes = b.bytes

look_ahead_equals(iter, k, token) == HasToken(iter, k) /\ TokenEquals(peek(iter, k), token)

consume_token(iter, expect_token) ==
    IF iter # << >>
    THEN IF TokenEquals(Head(iter), expect_token)
         THEN Ok(<< >>, Tail(iter))
         ELSE Err("Expect token")
    ELSE Err("Missing token")

consume_left_paren(iter, for_what) ==
    IF PeekIs(iter, 0, "LeftParen") THEN Ok(<< >>, Tail(iter)) ELSE Err("Expect a node")

consume_right_paren(iter) == consume_token(iter, RightParen)

consume_symbol(iter, name) == consume_token(iter, Symbol(name))

\* Returns the flag as value.
consume_symbol_optional(iter, name) ==
    IF look_ahead_equals(iter, 0, Symbol(name)) THEN Ok(TRUE, Tail(iter)) ELSE Ok(FALSE, iter)

\* Returns the NumberToken, which stays a token record here.
expect_number(iter, for_what) ==
    IF PeekIs(iter, 0, "Number") THEN Ok(Head(iter), Tail(iter)) ELSE Err("Expect a number")

expect_number_optional(iter) ==
    IF PeekIs(iter, 0, "Number") THEN Ok(OptionSome(Head(iter)), Tail(iter)) ELSE Ok(OptionNone, iter)

expect_string(iter, for_what) ==
    IF PeekIs(iter, 0, "String") THEN Ok(Head(iter).text, Tail(iter)) ELSE Err("Expect a string")

expect_string_optional(iter, for_what) ==
    IF PeekIs(iter, 0, "String") THEN Ok(OptionSome(Head(iter).text), Tail(iter)) ELSE Ok(OptionNone, iter)

expect_bytes(iter, for_what) ==
    IF PeekIs(iter, 0, "ByteData") THEN Ok(Head(iter).bytes, Tail(iter)) ELSE Err("Expect a bytes")

expect_symbol(iter, for_what) ==
    IF iter = << >> THEN Err("Missing a symbol")
    ELSE IF Head(iter).type = "Symbol" THEN Ok(Head(iter).text[1], Tail(iter))
    ELSE Err("Expect a symbol")

expect_identifier(iter, for_what) ==
    IF iter = << >> THEN Err("Missing a identifier")
    ELSE IF Head(iter).type = "Identifier" THEN Ok(Head(iter).text, Tail(iter))
    ELSE Err("Expect a identifier")

exist_child_node(iter, child_node_name) ==
    PeekIs(iter, 0, "LeftParen") /\ look_ahead_equals(iter, 1, Symbol(child_node_name))

\* The test of the element loops, `iter.look_ahead_equals(0, &Token::LeftParen)`
\* and `if let Some(Token::Symbol(child_node_name)) = iter.peek(1)`
\* (parser.rs:90-91, 261-262, 395-396): the name of the child node ahead, or
\* that there is none.
ChildAhead(iter) == PeekIs(iter, 0, "LeftParen") /\ PeekIs(iter, 1, "Symbol")

child_node_name(iter) == peek(iter, 1).text[1]

----------------------------------------------------------------------------
(* parser.rs: signatures and local variables (parser.rs:251-604)           *)

parse_data_type(iter) ==
    Let([data_type_name \in {expect_symbol(iter, "data.type")} |-> Try(data_type_name,
            CASE data_type_name.value = "i32" -> Ok("I32", data_type_name.iter)
              [] data_type_name.value = "i64" -> Ok("I64", data_type_name.iter)
              [] data_type_name.value = "f32" -> Ok("F32", data_type_name.iter)
              [] data_type_name.value = "f64" -> Ok("F64", data_type_name.iter)
              [] OTHER -> Err("Unknown data type"))])

parse_param_node(iter) ==
    Let([a \in {consume_left_paren(iter, "param")} |-> Try(a,
    Let([b \in {consume_symbol(a.iter, "param")} |-> Try(b,
    Let([name \in {expect_identifier(b.iter, "param")} |-> Try(name,
    Let([data_type \in {parse_data_type(name.iter)} |-> Try(data_type,
    Let([e \in {consume_right_paren(data_type.iter)} |-> Try(e,
    Ok([name |-> name.value, data_type |-> data_type.value], e.iter))]))]))]))]))])

parse_result_node(iter) ==
    Let([a \in {consume_left_paren(iter, "result")} |-> Try(a,
    Let([b \in {consume_symbol(a.iter, "result")} |-> Try(b,
    Let([data_type \in {parse_data_type(b.iter)} |-> Try(data_type,
    Let([e \in {consume_right_paren(data_type.iter)} |-> Try(e,
    Ok(data_type.value, e.iter))]))]))]))])

\* The loop `while matches!(iter.peek(0), &Some(Token::Symbol(_)))` of
\* parse_results_node and parse_identifier_less_params_node
\* (parser.rs:352-355, 2020-2023).
RECURSIVE DataTypes(_, _)
DataTypes(iter, data_types) ==
    IF PeekIs(iter, 0, "Symbol")
    THEN Let([data_type \in {parse_data_type(iter)} |-> Try(data_type,
             DataTypes(data_type.iter, Append(data_types, data_type.value)))])
    ELSE Ok(data_types, iter)

parse_results_node(iter) ==
    Let([a \in {consume_left_paren(iter, "results")} |-> Try(a,
    Let([b \in {consume_symbol(a.iter, "results")} |-> Try(b,
    Let([data_types \in {DataTypes(b.iter, << >>)} |-> Try(data_types,
    Let([e \in {consume_right_paren(data_types.iter)} |-> Try(e,
    Ok(data_types.value, e.iter))]))]))]))])

\* parse_optional_signature (parser.rs:251-284), its loop with the two
\* vectors it fills.
RECURSIVE Signature(_, _, _)
Signature(iter, params, results) ==
    IF ~ChildAhead(iter) THEN Ok([params |-> params, results |-> results], iter)
    ELSE CASE child_node_name(iter) = "param" ->
                Let([param_node \in {parse_param_node(iter)} |-> Try(param_node,
                    Signature(param_node.iter, Append(params, param_node.value), results))])
           [] child_node_name(iter) = "result" ->
                Let([data_type \in {parse_result_node(iter)} |-> Try(data_type,
                    Signature(data_type.iter, params, Append(results, data_type.value)))])
           [] child_node_name(iter) = "results" ->
                Let([data_types \in {parse_results_node(iter)} |-> Try(data_types,
                    Signature(data_types.iter, params, results \o data_types.value))])
           [] OTHER -> Ok([params |-> params, results |-> results], iter)

parse_optional_signature(iter) == Signature(iter, << >>, << >>)

\* parse_optional_signature_results_only (parser.rs:286-314).
RECURSIVE Results(_, _)
Results(iter, results) ==
    IF ~ChildAhead(iter) THEN Ok(results, iter)
    ELSE CASE child_node_name(iter) = "result" ->
                Let([data_type \in {parse_result_node(iter)} |-> Try(data_type,
                    Results(data_type.iter, Append(results, data_type.value)))])
           [] child_node_name(iter) = "results" ->
                Let([data_types \in {parse_results_node(iter)} |-> Try(data_types,
                    Results(data_types.iter, results \o data_types.value))])
           [] OTHER -> Ok(results, iter)

parse_optional_signature_results_only(iter) == Results(iter, << >>)

\* The value is (MemoryDataType, data length).
parse_memory_data_type_primitive_with_length(iter) ==
    Let([memory_data_type_name \in {expect_symbol(iter, "data.type")} |->
            Try(memory_data_type_name,
            CASE memory_data_type_name.value = "i32" -> Ok(<<"I32", <<4, 0>>>>, memory_data_type_name.iter)
              [] memory_data_type_name.value = "i64" -> Ok(<<"I64", <<8, 0>>>>, memory_data_type_name.iter)
              [] memory_data_type_name.value = "f32" -> Ok(<<"F32", <<4, 0>>>>, memory_data_type_name.iter)
              [] memory_data_type_name.value = "f64" -> Ok(<<"F64", <<8, 0>>>>, memory_data_type_name.iter)
              [] OTHER -> Err("Unknown data node memory data type"))])

parse_memory_data_type_bytes_with_length(iter) ==
    Let([a \in {consume_left_paren(iter, "data.type.bytes")} |-> Try(a,
    Let([b \in {consume_symbol(a.iter, "bytes")} |-> Try(b,
    Let([length_number_token \in {expect_number(b.iter, "data.type.bytes.length")} |->
            Try(length_number_token,
    Let([length \in {parse_u32_string(length_number_token.value)} |->
            TryOr(length, Err("The length of memory data type bytes is not a valid number."),
    Let([e \in {consume_right_paren(length_number_token.iter)} |-> Try(e,
    Ok(<<"Bytes", length.value>>, e.iter))]))]))]))]))])

parse_memory_data_type_with_length(iter) ==
    IF look_ahead_equals(iter, 0, LeftParen)
    THEN parse_memory_data_type_bytes_with_length(iter)
    ELSE parse_memory_data_type_primitive_with_length(iter)

parse_local_node(iter) ==
    Let([a \in {consume_left_paren(iter, "local")} |-> Try(a,
    Let([b \in {consume_symbol(a.iter, "local")} |-> Try(b,
    Let([name \in {expect_identifier(b.iter, "local.name")} |-> Try(name,
    Let([type \in {parse_memory_data_type_with_length(name.iter)} |-> Try(type,
    Let([e \in {consume_right_paren(type.iter)} |-> Try(e,
    IF contains_separator(name.value)
    THEN Err("The name of local variable can not contains path separator")
    ELSE Ok([name |-> name.value, memory_data_type |-> type.value[1], data_length |-> type.value[2]],
            e.iter))]))]))]))]))])

\* parse_optional_local_variables (parser.rs:386-410), its loop.
RECURSIVE Locals(_, _)
Locals(iter, local_nodes) ==
    IF ~ChildAhead(iter) THEN Ok(local_nodes, iter)
    ELSE IF child_node_name(iter) = "local"
         THEN Let([local_node \in {parse_local_node(iter)} |-> Try(local_node,
                  Locals(local_node.iter, Append(local_nodes, local_node.value)))])
         ELSE Ok(local_nodes, iter)

parse_optional_local_variables(iter) == Locals(iter, << >>)


----------------------------------------------------------------------------
(* parser.rs: instructions (parser.rs:634-1465).  map is the value of the   *)
(* static INSTRUCTION_MAP the call finds.                                  *)

\* The InstructionSyntaxKind the table holds under a name: the variant and what
\* it carries (table_ref.get(inst_name), parser.rs:2374).
InstructionSyntaxKind(inst_name) ==
    Let([row \in {Table[CHOOSE k \in 1..Len(Table) : Table[k][1] = inst_name]} |->
        [kind |-> row[2], arg |-> row[3]]])

RECURSIVE parse_instruction_with_parentheses(_, _)

parse_next_instruction_optional(iter, map) ==
    IF PeekIs(iter, 0, "LeftParen")
    THEN Let([instruction_ \in {parse_instruction_with_parentheses(iter, map)} |->
            Try(instruction_,
             Ok(OptionSome(instruction_.value), instruction_.iter))])
    ELSE Ok(OptionNone, iter)

parse_next_operand(iter, map, for_what) ==
    IF iter = << >> THEN Err("Missing operand")
    ELSE IF Head(iter).type = "LeftParen" THEN parse_instruction_with_parentheses(iter, map)
    ELSE Err("Expect operand")

\* `while let Some(instruction) = parse_next_instruction_optional(iter)?`
\* (parser.rs:643-645, 671-673, 1451-1453).
RECURSIVE Instructions(_, _, _)
Instructions(iter, map, instructions) ==
    Let([next \in {parse_next_instruction_optional(iter, map)} |-> Try(next,
        IF next.value.tag = "None" THEN Ok(instructions, next.iter)
        ELSE Instructions(next.iter, map, Append(instructions, next.value.value)))])

\* A parser to which the code node is optional: without one the function has
\* no instructions.
parse_optional_code_node(iter, map) ==
    IF ~exist_child_node(iter, "code") THEN Ok(<< >>, iter) ELSE
    Let([b \in {consume_symbol(Tail(iter), "code")} |-> Try(b,
    Let([instructions \in {Instructions(b.iter, map, << >>)} |-> Try(instructions,
    Let([e \in {consume_right_paren(instructions.iter)} |-> Try(e,
    Ok(instructions.value, e.iter))]))]))])

parse_code_node(iter, map) ==
    Let([a \in {consume_left_paren(iter, "code")} |-> Try(a,
    Let([b \in {consume_symbol(a.iter, "code")} |-> Try(b,
    Let([instructions \in {Instructions(b.iter, map, << >>)} |-> Try(instructions,
    Let([e \in {consume_right_paren(instructions.iter)} |-> Try(e,
    Ok(instructions.value, e.iter))]))]))]))])

parse_instruction_sequence_node(iter, map, node_name) ==
    Let([a \in {consume_left_paren(iter, node_name)} |-> Try(a,
    Let([b \in {consume_symbol(a.iter, node_name)} |-> Try(b,
    Let([instructions \in {Instructions(b.iter, map, << >>)} |-> Try(instructions,
    Let([e \in {consume_right_paren(instructions.iter)} |-> Try(e,
    CASE node_name = "do" -> Ok([op |-> "Do", instructions |-> instructions.value], e.iter)
      [] node_name = "break" -> Ok([op |-> "Break", instructions |-> instructions.value], e.iter)
      [] node_name = "recur" -> Ok([op |-> "Recur", instructions |-> instructions.value], e.iter)
      [] node_name = "return" -> Ok([op |-> "Return", instructions |-> instructions.value], e.iter)
      [] node_name = "rerun" -> Ok([op |-> "Rerun", instructions |-> instructions.value], e.iter)
      [] OTHER -> Aborted("internal error: entered unreachable code"))]))]))]))])

parse_instruction_kind_imm_i32(iter) ==
    Let([a \in {consume_left_paren(iter, "instruction.i32.imm")} |-> Try(a,
    Let([b \in {consume_symbol(a.iter, "i32.imm")} |-> Try(b,
    Let([number_token \in {expect_number(b.iter, "instruction.i32.imm.value")} |->
            Try(number_token,
    Let([e \in {consume_right_paren(number_token.iter)} |-> Try(e,
    Let([value \in {parse_u32_string(number_token.value)} |-> Try(value,
    Ok([op |-> "ImmI32", value |-> value.value], e.iter))]))]))]))]))])

parse_instruction_kind_local_load(iter, inst_name, opcode, is_local) ==
    Let([a \in {consume_left_paren(iter, inst_name)} |-> Try(a,
    Let([b \in {consume_symbol(a.iter, inst_name)} |-> Try(b,
    Let([name \in {expect_identifier(b.iter, inst_name)} |-> Try(name,
    Let([offset_number_token \in {expect_number_optional(name.iter)} |->
    Let([offset \in {IF offset_number_token.value.tag = "Some"
        THEN parse_u32_string(offset_number_token.value.value)
        ELSE Ok(<<0, 0>>, << >>)} |-> Try(offset,
    Let([e \in {consume_right_paren(offset_number_token.iter)} |-> Try(e,
    IF is_local
    THEN Ok([op |-> "LocalLoad", opcode |-> opcode, name |-> name.value, offset |-> offset.value], e.iter)
    ELSE Ok([op |-> "DataLoad", opcode |-> opcode, id |-> name.value, offset |-> offset.value],
            e.iter))]))])]))]))]))])

parse_instruction_kind_imm_i64(iter) ==
    Let([a \in {consume_left_paren(iter, "instruction.i64.imm")} |-> Try(a,
    Let([b \in {consume_symbol(a.iter, "i64.imm")} |-> Try(b,
    Let([number_token \in {expect_number(b.iter, "instruction.i64.imm.value")} |->
            Try(number_token,
    Let([e \in {consume_right_paren(number_token.iter)} |-> Try(e,
    Let([value \in {parse_u64_string(number_token.value)} |-> Try(value,
    Ok([op |-> "ImmI64", value |-> value.value], e.iter))]))]))]))]))])

parse_instruction_kind_imm_f32(iter) ==
    Let([a \in {consume_left_paren(iter, "instruction.f32.imm")} |-> Try(a,
    Let([b \in {consume_symbol(a.iter, "f32.imm")} |-> Try(b,
    Let([number_token \in {expect_number(b.iter, "instruction.f32.imm.value")} |->
            Try(number_token,
    Let([e \in {consume_right_paren(number_token.iter)} |-> Try(e,
    Let([imm_f32 \in {parse_f32_string(number_token.value)} |-> Try(imm_f32,
    Ok([op |-> "ImmF32", value |-> imm_f32.value], e.iter))]))]))]))]))])

parse_instruction_kind_imm_f64(iter) ==
    Let([a \in {consume_left_paren(iter, "instruction.f64.imm")} |-> Try(a,
    Let([b \in {consume_symbol(a.iter, "f64.imm")} |-> Try(b,
    Let([number_token \in {expect_number(b.iter, "instruction.f64.imm.value")} |->
            Try(number_token,
    Let([e \in {consume_right_paren(number_token.iter)} |-> Try(e,
    Let([imm_f64 \in {parse_f64_string(number_token.value)} |-> Try(imm_f64,
    Ok([op |-> "ImmF64", value |-> imm_f64.value], e.iter))]))]))]))]))])

\* `if let Some(offset_number_token) = expect_number_optional(iter)
\* { parse_u32_string(&offset_number_token)? } else { 0 }` (parser.rs:1019-1023,
\* 1057-1061, 1165-1169, 1196-1200).
Offset(offset_number_token) ==
    IF offset_number_token.value.tag = "Some"
    THEN parse_u32_string(offset_number_token.value.value)
    ELSE Ok(<<0, 0>>, << >>)

parse_instruction_kind_local_store(iter, map, inst_name, opcode, is_local) ==
    Let([a \in {consume_left_paren(iter, inst_name)} |-> Try(a,
    Let([b \in {consume_symbol(a.iter, inst_name)} |-> Try(b,
    Let([name \in {expect_identifier(b.iter, inst_name)} |-> Try(name,
    Let([offset_number_token \in {expect_number_optional(name.iter)} |->
    Let([offset \in {Offset(offset_number_token)} |-> Try(offset,
    Let([operand \in {parse_next_operand(offset_number_token.iter, map, inst_name)} |->
            Try(operand,
    Let([e \in {consume_right_paren(operand.iter)} |-> Try(e,
    IF is_local
    THEN Ok([op |-> "LocalStore", opcode |-> opcode, name |-> name.value,
             offset |-> offset.value, value |-> operand.value], e.iter)
    ELSE Ok([op |-> "DataStore", opcode |-> opcode, id |-> name.value,
             offset |-> offset.value, value |-> operand.value], e.iter))]))]))])]))]))]))])

parse_instruction_kind_memory_load(iter, map, inst_name, opcode) ==
    Let([a \in {consume_left_paren(iter, inst_name)} |-> Try(a,
    Let([b \in {consume_symbol(a.iter, inst_name)} |-> Try(b,
    Let([offset_token_number \in {expect_number_optional(b.iter)} |->
    Let([offset \in {Offset(offset_token_number)} |-> Try(offset,
    Let([addr \in {parse_next_operand(offset_token_number.iter, map, inst_name)} |-> Try(addr,
    Let([e \in {consume_right_paren(addr.iter)} |-> Try(e,
    Ok([op |-> "MemoryLoad", opcode |-> opcode, offset |-> offset.value, addr |-> addr.value],
       e.iter))]))]))])]))]))])

parse_instruction_kind_memory_store(iter, map, inst_name, opcode) ==
    Let([a \in {consume_left_paren(iter, inst_name)} |-> Try(a,
    Let([b \in {consume_symbol(a.iter, inst_name)} |-> Try(b,
    Let([offset_number_token \in {expect_number_optional(b.iter)} |->
    Let([offset \in {Offset(offset_number_token)} |-> Try(offset,
    Let([addr \in {parse_next_operand(offset_number_token.iter, map, inst_name)} |-> Try(addr,
    Let([value \in {parse_next_operand(addr.iter, map, inst_name)} |-> Try(value,
    Let([e \in {consume_right_paren(value.iter)} |-> Try(e,
    Ok([op |-> "MemoryStore", opcode |-> opcode, offset |-> offset.value, addr |-> addr.value,
        value |-> value.value], e.iter))]))]))]))])]))]))])

parse_instruction_kind_unary_op(iter, map, inst_name, opcode) ==
    Let([a \in {consume_left_paren(iter, inst_name)} |-> Try(a,
    Let([b \in {consume_symbol(a.iter, inst_name)} |-> Try(b,
    Let([source \in {parse_next_operand(b.iter, map, inst_name)} |-> Try(source,
    Let([e \in {consume_right_paren(source.iter)} |-> Try(e,
    Ok([op |-> "UnaryOp", opcode |-> opcode, source |-> source.value], e.iter))]))]))]))])

parse_instruction_kind_unary_op_with_imm_i64(iter, map, inst_name, opcode) ==
    Let([a \in {consume_left_paren(iter, inst_name)} |-> Try(a,
    Let([b \in {consume_symbol(a.iter, inst_name)} |-> Try(b,
    Let([imm_token \in {expect_number(b.iter, inst_name)} |-> Try(imm_token,
    Let([imm_i64 \in {parse_u64_string(imm_token.value)} |-> Try(imm_i64,
    Let([source \in {parse_next_operand(imm_token.iter, map, inst_name)} |-> Try(source,
    Let([e \in {consume_right_paren(source.iter)} |-> Try(e,
    Ok([op |-> "UnaryOpWithImmI64", opcode |-> opcode, imm |-> imm_i64.value,
        source |-> source.value], e.iter))]))]))]))]))]))])

parse_instruction_kind_binary_op(iter, map, inst_name, opcode) ==
    Let([a \in {consume_left_paren(iter, inst_name)} |-> Try(a,
    Let([b \in {consume_symbol(a.iter, inst_name)} |-> Try(b,
    Let([left \in {parse_next_operand(b.iter, map, inst_name)} |-> Try(left,
    Let([right \in {parse_next_operand(left.iter, map, inst_name)} |-> Try(right,
    Let([e \in {consume_right_paren(right.iter)} |-> Try(e,
    Ok([op |-> "BinaryOp", opcode |-> opcode, left |-> left.value, right |-> right.value],
       e.iter))]))]))]))]))])

parse_instruction_kind_when(iter, map) ==
    Let([a \in {consume_left_paren(iter, "instruction.when")} |-> Try(a,
    Let([b \in {consume_symbol(a.iter, "when")} |-> Try(b,
    Let([test \in {parse_next_operand(b.iter, map, "instruction.when.test")} |-> Try(test,
    Let([consequent \in {parse_next_operand(test.iter, map, "instruction.when.consequent")} |->
            Try(consequent,
    Let([e \in {consume_right_paren(consequent.iter)} |-> Try(e,
    Ok([op |-> "When", test |-> test.value, consequent |-> consequent.value],
       e.iter))]))]))]))]))])

parse_instruction_kind_if(iter, map) ==
    Let([a \in {consume_left_paren(iter, "instruction.if")} |-> Try(a,
    Let([b \in {consume_symbol(a.iter, "if")} |-> Try(b,
    Let([results \in {parse_optional_signature_results_only(b.iter)} |-> Try(results,
    Let([test \in {parse_next_operand(results.iter, map, "instruction.if.test")} |-> Try(test,
    Let([consequent \in {parse_next_operand(test.iter, map, "instruction.if.consequent")} |->
            Try(consequent,
    Let([alternate \in {parse_next_operand(consequent.iter, map, "instruction.if.alternate")} |->
            Try(alternate,
    Let([e \in {consume_right_paren(alternate.iter)} |-> Try(e,
    Ok([op |-> "If", results |-> results.value, test |-> test.value,
        consequent |-> consequent.value, alternate |-> alternate.value],
       e.iter))]))]))]))]))]))]))])

parse_instruction_kind_for(iter, map) ==
    Let([a \in {consume_left_paren(iter, "instruction.for")} |-> Try(a,
    Let([b \in {consume_symbol(a.iter, "for")} |-> Try(b,
    Let([signature \in {parse_optional_signature(b.iter)} |-> Try(signature,
    Let([code \in {parse_next_operand(signature.iter, map, "instruction.for.code")} |-> Try(code,
    Let([e \in {consume_right_paren(code.iter)} |-> Try(e,
    Ok([op |-> "For", params |-> signature.value.params, results |-> signature.value.results,
        code |-> code.value], e.iter))]))]))]))]))])

parse_instruction_kind_call(iter, map) ==
    Let([a \in {consume_left_paren(iter, "instruction.call")} |-> Try(a,
    Let([b \in {consume_symbol(a.iter, "call")} |-> Try(b,
    Let([name_path \in {expect_identifier(b.iter, "instruction.call.name")} |-> Try(name_path,
    Let([args \in {Instructions(name_path.iter, map, << >>)} |-> Try(args,
    Let([e \in {consume_right_paren(args.iter)} |-> Try(e,
    Ok([op |-> "Call", id |-> name_path.value, args |-> args.value], e.iter))]))]))]))]))])

parse_instruction_kind_call_by_operand(iter, map) ==
    Let([a \in {consume_left_paren(iter, "instruction.dyncall")} |-> Try(a,
    Let([b \in {consume_symbol(a.iter, "dyncall")} |-> Try(b,
    Let([addr \in {parse_next_operand(b.iter, map, "instruction.dyncall")} |-> Try(addr,
    Let([args \in {Instructions(addr.iter, map, << >>)} |-> Try(args,
    Let([e \in {consume_right_paren(args.iter)} |-> Try(e,
    Ok([op |-> "DynCall", addr |-> addr.value, args |-> args.value], e.iter))]))]))]))]))])

parse_instruction_kind_trap(iter) ==
    Let([a \in {consume_left_paren(iter, "instruction.trap")} |-> Try(a,
    Let([b \in {consume_symbol(a.iter, "trap")} |-> Try(b,
    Let([code_token \in {expect_number(b.iter, "instruction.trap.code")} |-> Try(code_token,
    Let([code \in {parse_u32_string(code_token.value)} |-> Try(code,
    Let([e \in {consume_right_paren(code_token.iter)} |-> Try(e,
    Ok([op |-> "Trap", code |-> code.value], e.iter))]))]))]))]))])

parse_instruction_kind_addr_function(iter) ==
    Let([a \in {consume_left_paren(iter, "instruction.addr.function")} |-> Try(a,
    Let([b \in {consume_symbol(a.iter, "addr.function")} |-> Try(b,
    Let([id \in {expect_identifier(b.iter, "instruction.addr.function.name")} |-> Try(id,
    Let([e \in {consume_right_paren(id.iter)} |-> Try(e,
    Ok([op |-> "AddrFunction", id |-> id.value], e.iter))]))]))]))])

\* The loop `while exist_child_node(iter, "case")` (parser.rs:1345-1356).
RECURSIVE Cases(_, _, _)
Cases(iter, map, cases) ==
    IF ~exist_child_node(iter, "case") THEN Ok(cases, iter) ELSE
    Let([a \in {consume_left_paren(iter, "instruction.branch.case")} |-> Try(a,
    Let([b \in {consume_symbol(a.iter, "case")} |-> Try(b,
    Let([test \in {parse_next_operand(b.iter, map, "instruction.branch.case.test")} |->
            Try(test,
    Let([consequent \in {parse_next_operand(test.iter, map, "instruction.branch.case.consequent")} |->
            Try(consequent,
    Let([e \in {consume_right_paren(consequent.iter)} |-> Try(e,
    Cases(e.iter, map, Append(cases, [test |-> test.value, consequent |-> consequent.value])))]))]))]))]))])

\* A parser that takes the default in a loop, as it takes the cases: of
\* several (default ..) nodes the last one is kept.
RECURSIVE DefaultLoop(_, _, _)
DefaultLoop(iter, map, default) ==
    IF ~exist_child_node(iter, "default") THEN Ok(default, iter) ELSE
    Let([b \in {consume_symbol(Tail(iter), "default")} |-> Try(b,
    Let([consequent \in {parse_next_operand(b.iter, map, "instruction.branch.default")} |->
            Try(consequent,
    Let([e \in {consume_right_paren(consequent.iter)} |-> Try(e,
    DefaultLoop(e.iter, map, OptionSome(consequent.value)))]))]))])

DefaultRepeated(iter, map) == DefaultLoop(iter, map, OptionNone)

\* `if exist_child_node(iter, "default")` (parser.rs:1358-1366).
Default(iter, map) ==
    IF ~exist_child_node(iter, "default") THEN Ok(OptionNone, iter) ELSE
    Let([a \in {consume_left_paren(iter, "instruction.branch.default")} |-> Try(a,
    Let([b \in {consume_symbol(a.iter, "default")} |-> Try(b,
    Let([consequent \in {parse_next_operand(b.iter, map, "instruction.branch.default")} |->
            Try(consequent,
    Let([e \in {consume_right_paren(consequent.iter)} |-> Try(e,
    Ok(OptionSome(consequent.value), e.iter))]))]))]))])

parse_instruction_kind_branch(iter, map) ==
    Let([a \in {consume_left_paren(iter, "instruction.branch")} |-> Try(a,
    Let([b \in {consume_symbol(a.iter, "branch")} |-> Try(b,
    Let([results \in {parse_optional_signature_results_only(b.iter)} |-> Try(results,
    Let([cases \in {Cases(results.iter, map, << >>)} |-> Try(cases,
    Let([default \in {Default(cases.iter, map)} |-> Try(default,
    Let([e \in {consume_right_paren(default.iter)} |-> Try(e,
    Ok([op |-> "Branch", results |-> results.value, cases |-> cases.value, default |-> default.value],
       e.iter))]))]))]))]))]))])

parse_instruction_kind_call_by_num(iter, map) ==
    Let([a \in {consume_left_paren(iter, "instruction.syscall")} |-> Try(a,
    Let([b \in {consume_symbol(a.iter, "syscall")} |-> Try(b,
    Let([number_token \in {expect_number(b.iter, "instruction.syscall.number")} |->
            Try(number_token,
    Let([num \in {parse_u32_string(number_token.value)} |-> Try(num,
    Let([args \in {Instructions(number_token.iter, map, << >>)} |-> Try(args,
    Let([e \in {consume_right_paren(args.iter)} |-> Try(e,
    Ok([op |-> "SysCall", num |-> num.value, args |-> args.value], e.iter))]))]))]))]))]))])

\* parser.rs:746-854.  The lookup ends the call when the table is not there
\* (parser.rs:2372); the arms of AtomicRmw and AtomicCas are todo!()
\* (parser.rs:840-841).
parse_instruction_with_parentheses(iter, map) ==
    IF ~PeekIs(iter, 1, "Symbol") THEN Err("Missing symbol for instruction node.") ELSE
    Let([inst_name \in {peek(iter, 1).text[1]} |->
    Let([found \in {get_instruction_kind(map, inst_name)} |->
    IF found = "panic" THEN Aborted("The instruction table is not initialized yet.")
    ELSE IF found = "None" THEN Err("Unknown instruction")
    ELSE Let([kind \in {InstructionSyntaxKind(inst_name)} |->
         CASE kind.kind = "LocalLoad" ->
                parse_instruction_kind_local_load(iter, inst_name, kind.arg, TRUE)
           [] kind.kind = "LocalStore" ->
                parse_instruction_kind_local_store(iter, map, inst_name, kind.arg, TRUE)
           [] kind.kind = "DataLoad" ->
                parse_instruction_kind_local_load(iter, inst_name, kind.arg, FALSE)
           [] kind.kind = "DataStore" ->
                parse_instruction_kind_local_store(iter, map, inst_name, kind.arg, FALSE)
           [] kind.kind = "MemoryLoad" ->
                parse_instruction_kind_memory_load(iter, map, inst_name, kind.arg)
           [] kind.kind = "MemoryStore" ->
                parse_instruction_kind_memory_store(iter, map, inst_name, kind.arg)
           [] kind.kind = "UnaryOp" ->
                parse_instruction_kind_unary_op(iter, map, inst_name, kind.arg)
           [] kind.kind = "UnaryOpWithImmI64" ->
                parse_instruction_kind_unary_op_with_imm_i64(iter, map, inst_name, kind.arg)
           [] kind.kind = "BinaryOp" ->
                parse_instruction_kind_binary_op(iter, map, inst_name, kind.arg)
           [] kind.kind = "ImmI32" -> parse_instruction_kind_imm_i32(iter)
           [] kind.kind = "ImmI64" -> parse_instruction_kind_imm_i64(iter)
           [] kind.kind = "ImmF32" -> parse_instruction_kind_imm_f32(iter)
           [] kind.kind = "ImmF64" -> parse_instruction_kind_imm_f64(iter)
           [] kind.kind = "When" -> parse_instruction_kind_when(iter, map)
           [] kind.kind = "If" -> parse_instruction_kind_if(iter, map)
           [] kind.kind = "Branch" -> parse_instruction_kind_branch(iter, map)
           [] kind.kind = "For" -> parse_instruction_kind_for(iter, map)
           [] kind.kind = "Sequence" -> parse_instruction_sequence_node(iter, map, kind.arg)
           [] kind.kind = "Call" -> parse_instruction_kind_call(iter, map)
           [] kind.kind = "DynCall" -> parse_instruction_kind_call_by_operand(iter, map)
           [] kind.kind = "SysCall" -> parse_instruction_kind_call_by_num(iter, map)
           [] kind.kind = "Trap" -> parse_instruction_kind_trap(iter)
           [] kind.kind = "AddrFunction" -> parse_instruction_kind_addr_function(iter)
           [] kind.kind = "AtomicRmw" -> Aborted("not yet implemented")
           [] kind.kind = "AtomicCas" -> Aborted("not yet implemented")])])])


----------------------------------------------------------------------------
(* parser.rs: functions (parser.rs:165-249)                                *)

\* A parser that takes a string after the word "function" for the calling
\* convention, whether the function is exported or not.
ConventionOfAny(export) == expect_string_optional(export.iter, "function.export.convention")

\* `let convention = if export { .. } else { None }` (parser.rs:209-213), for
\* export the result of consume_symbol_optional.
Convention(export) ==
    IF export.value
    THEN expect_string_optional(export.iter, "function.export.convention")
    ELSE Ok(OptionNone, export.iter)

\* `let export_name = if convention.is_some() { .. } else { None }`
\* (parser.rs:215-219).
ExportName(convention) ==
    IF convention.value.tag = "Some"
    THEN expect_string_optional(convention.iter, "function.export.name")
    ELSE Ok(OptionNone, convention.iter)

parse_function_node(iter, map) ==
    Let([a \in {consume_left_paren(iter, "function")} |-> Try(a,
    Let([b \in {consume_symbol(a.iter, "function")} |-> Try(b,
    Let([export \in {consume_symbol_optional(b.iter, "export")} |->
    Let([convention \in {Convention(export)} |->
    Let([export_name \in {ExportName(convention)} |->
    Let([name \in {expect_identifier(export_name.iter, "function.name")} |-> Try(name,
    IF contains_separator(name.value)
    THEN Err("The name of function can not contains path separator") ELSE
    Let([signature \in {parse_optional_signature(name.iter)} |-> Try(signature,
    Let([locals \in {parse_optional_local_variables(signature.iter)} |-> Try(locals,
    Let([code \in {parse_code_node(locals.iter, map)} |-> Try(code,
    Let([e \in {consume_right_paren(code.iter)} |-> Try(e,
    Ok([node |-> "FunctionNode", name |-> name.value, export |-> export.value,
        convention |-> convention.value, export_name |-> export_name.value,
        params |-> signature.value.params, results |-> signature.value.results,
        locals |-> locals.value, code |-> code.value],
       e.iter))]))]))]))]))])])])]))]))])

----------------------------------------------------------------------------
(* parser.rs: data (parser.rs:443-530, 1559-1833, 2461-2503)               *)

\* A small unsigned integer as a u64.
U64(k) == <<k, 0, 0, 0>>

\* The value is (MemoryDataType, data length, align).
parse_memory_data_type_primitive_with_length_and_align(iter) ==
    Let([memory_data_type_name \in {expect_symbol(iter, "data.type")} |->
            Try(memory_data_type_name,
            CASE memory_data_type_name.value = "i32" -> Ok(<<"I32", U64(4), U64(4)>>, memory_data_type_name.iter)
              [] memory_data_type_name.value = "i64" -> Ok(<<"I64", U64(8), U64(8)>>, memory_data_type_name.iter)
              [] memory_data_type_name.value = "f32" -> Ok(<<"F32", U64(4), U64(4)>>, memory_data_type_name.iter)
              [] memory_data_type_name.value = "f64" -> Ok(<<"F64", U64(8), U64(8)>>, memory_data_type_name.iter)
              [] OTHER -> Err("Unknown data node memory data type"))])

parse_memory_data_type_bytes_with_length_and_align(iter) ==
    Let([a \in {consume_left_paren(iter, "data.type.bytes")} |-> Try(a,
    Let([b \in {consume_symbol(a.iter, "bytes")} |-> Try(b,
    Let([length_number_token \in {expect_number(b.iter, "data.type.bytes.length")} |->
            Try(length_number_token,
    Let([align_number_token \in {expect_number(length_number_token.iter, "data.type.bytes.align")} |->
            Try(align_number_token,
    Let([length \in {parse_u64_string(length_number_token.value)} |->
            TryOr(length, Err("The length of memory data type bytes is not a valid number."),
    Let([align \in {parse_u64_string(align_number_token.value)} |->
            TryOr(align, Err("The align of memory data type bytes is not a valid number."),
    Let([e \in {consume_right_paren(align_number_token.iter)} |-> Try(e,
    Ok(<<"Bytes", length.value, align.value>>, e.iter))]))]))]))]))]))]))])

parse_memory_data_type_with_length_and_align(iter) ==
    IF look_ahead_equals(iter, 0, LeftParen)
    THEN parse_memory_data_type_bytes_with_length_and_align(iter)
    ELSE parse_memory_data_type_primitive_with_length_and_align(iter)

\* The floating point literals of the data items.
FloatLiterals == {<<"1", ".", "0">>, <<"0", ".", "5">>, <<"-", "2", ".", "5">>,
                  <<"3", ".", "1", "4">>, <<"1", "e", "5">>, <<".", "5">>,
                  <<"i", "n", "f">>, <<"1", ".", "0", "e", "4", "0", "0">>}

\* value.as_bytes() (parser.rs:1781, 1791): the UTF-8 encoding of the
\* characters of the strings in the data items, among them U+00E9 and U+4E2D,
\* which take two and three bytes.
Utf8(c) ==
    CASE c = "H" -> <<72>>
      [] c = "i" -> <<105>>
      [] c = "!" -> <<33>>
      [] c = "U+00E9" -> <<195, 169>>
      [] c = "U+4E2D" -> <<228, 184, 173>>

RECURSIVE as_bytes(_)
as_bytes(chars) ==
    IF chars = << >> THEN << >> ELSE Utf8(Head(chars)) \o as_bytes(Tail(chars))

InitedData(memory_data_type, length, align, value) ==
    [memory_data_type |-> memory_data_type, length |-> length, align |-> align, value |-> value]

\* The arms of the primitive types (parser.rs:1731-1778): a number, read as
\* the type, and its bytes.
InitedNumber(iter, memory_data_type, value_of(_), width) ==
    Let([value_token \in {expect_number(iter, "data.value")} |-> Try(value_token,
    Let([value \in {value_of(value_token.value)} |-> Try(value,
    Ok(InitedData(memory_data_type, width, U64(width), to_le_bytes(value.value)), value_token.iter))]))])

parse_inited_data(iter) ==
    IF PeekIs(iter, 0, "Symbol")
    THEN Let([inited_data_type \in {Head(iter).text[1]} |->
         Let([rest \in {Tail(iter)} |->
         CASE inited_data_type = "i32" -> InitedNumber(rest, "I32", parse_u32_string, 4)
           [] inited_data_type = "i64" -> InitedNumber(rest, "I64", parse_u64_string, 8)
           [] inited_data_type = "f32" -> InitedNumber(rest, "F32", parse_f32_string, 4)
           [] inited_data_type = "f64" -> InitedNumber(rest, "F64", parse_f64_string, 8)
           [] inited_data_type = "string" ->
                 Let([value \in {expect_string(rest, "data.string.value")} |-> Try(value,
                 Let([bytes \in {as_bytes(value.value)} |->
                 Ok(InitedData("Bytes", Len(bytes), U64(1), bytes), value.iter)]))])
           [] inited_data_type = "cstring" ->
                 Let([value \in {expect_string(rest, "data.cstring.value")} |-> Try(value,
                 Let([bytes \in {Append(as_bytes(value.value), 0)} |->
                 Ok(InitedData("Bytes", Len(bytes), U64(1), bytes), value.iter)]))])
           [] OTHER -> Err("Unknown data type for the data item")])])
    ELSE IF PeekIs(iter, 0, "LeftParen") /\ look_ahead_equals(Tail(iter), 0, Symbol("bytes"))
    THEN Let([b \in {consume_symbol(Tail(iter), "bytes")} |-> Try(b,
         Let([align_token \in {expect_number(b.iter, "data.bytes.align")} |-> Try(align_token,
         Let([align \in {parse_u64_string(align_token.value)} |-> Try(align,
         Let([e \in {consume_right_paren(align_token.iter)} |-> Try(e,
         Let([bytes \in {expect_bytes(e.iter, "data.bytes.value")} |-> Try(bytes,
         Ok(InitedData("Bytes", Len(bytes.value), align.value, bytes.value), bytes.iter))]))]))]))]))])
    ELSE Err("Missing the value of data item")

parse_data_kind_node_read_only(iter) ==
    Let([a \in {consume_left_paren(iter, "data.read_only")} |-> Try(a,
    Let([b \in {consume_symbol(a.iter, "read_only")} |-> Try(b,
    Let([inited_data \in {parse_inited_data(b.iter)} |-> Try(inited_data,
    Let([e \in {consume_right_paren(inited_data.iter)} |-> Try(e,
    Ok([kind |-> "ReadOnly", data |-> inited_data.value], e.iter))]))]))]))])

parse_data_kind_node_read_write(iter, inst_name) ==
    Let([a \in {consume_left_paren(iter, inst_name)} |-> Try(a,
    Let([b \in {consume_symbol(a.iter, inst_name)} |-> Try(b,
    Let([inited_data \in {parse_inited_data(b.iter)} |-> Try(inited_data,
    Let([e \in {consume_right_paren(inited_data.iter)} |-> Try(e,
    IF inst_name = "thread_local_read_write"
    THEN Ok([kind |-> "ThreadLocalReadWrite", data |-> inited_data.value], e.iter)
    ELSE Ok([kind |-> "ReadWrite", data |-> inited_data.value], e.iter))]))]))]))])

parse_data_kind_node_uninit(iter, inst_name) ==
    Let([a \in {consume_left_paren(iter, inst_name)} |-> Try(a,
    Let([b \in {consume_symbol(a.iter, inst_name)} |-> Try(b,
    Let([type \in {parse_memory_data_type_with_length_and_align(b.iter)} |-> Try(type,
    Let([uninit_data \in {[memory_data_type |-> type.value[1], length |-> type.value[2],
         align |-> type.value[3]]} |->
    Let([e \in {consume_right_paren(type.iter)} |-> Try(e,
    IF inst_name = "thread_local_uninit"
    THEN Ok([kind |-> "ThreadLocalUninit", data |-> uninit_data], e.iter)
    ELSE Ok([kind |-> "Uninit", data |-> uninit_data], e.iter))])]))]))]))])

parse_data_kind_node(iter) ==
    IF ~PeekIs(iter, 1, "Symbol") THEN Err("Missing data kind for data node") ELSE
    Let([kind \in {peek(iter, 1).text[1]} |->
        CASE kind = "read_only" -> parse_data_kind_node_read_only(iter)
          [] kind = "read_write" -> parse_data_kind_node_read_write(iter, "read_write")
          [] kind = "uninit" -> parse_data_kind_node_uninit(iter, "uninit")
          [] kind = "thread_local_read_write" ->
                parse_data_kind_node_read_write(iter, "thread_local_read_write")
          [] kind = "thread_local_uninit" -> parse_data_kind_node_uninit(iter, "thread_local_uninit")
          [] OTHER -> Err("Unknown data node kind")])

parse_data_node(iter) ==
    Let([a \in {consume_left_paren(iter, "data")} |-> Try(a,
    Let([b \in {consume_symbol(a.iter, "data")} |-> Try(b,
    Let([export \in {consume_symbol_optional(b.iter, "export")} |->
    Let([name \in {expect_identifier(export.iter, "data.name")} |-> Try(name,
    Let([data_kind \in {parse_data_kind_node(name.iter)} |-> Try(data_kind,
    Let([e \in {consume_right_paren(data_kind.iter)} |-> Try(e,
    IF contains_separator(name.value)
    THEN Err("The name of data can not contains path separator")
    ELSE Ok([node |-> "DataNode", name |-> name.value, export |-> export.value,
             data_kind |-> data_kind.value], e.iter))]))]))])]))]))])


----------------------------------------------------------------------------
(* parser.rs: external and import nodes (parser.rs:1835-2217)              *)

parse_identifier_less_param_node(iter) ==
    Let([a \in {consume_left_paren(iter, "param")} |-> Try(a,
    Let([b \in {consume_symbol(a.iter, "param")} |-> Try(b,
    Let([data_type \in {parse_data_type(b.iter)} |-> Try(data_type,
    Let([e \in {consume_right_paren(data_type.iter)} |-> Try(e,
    Ok(data_type.value, e.iter))]))]))]))])

parse_identifier_less_params_node(iter) ==
    Let([a \in {consume_left_paren(iter, "params")} |-> Try(a,
    Let([b \in {consume_symbol(a.iter, "params")} |-> Try(b,
    Let([data_types \in {DataTypes(b.iter, << >>)} |-> Try(data_types,
    Let([e \in {consume_right_paren(data_types.iter)} |-> Try(e,
    Ok(data_types.value, e.iter))]))]))]))])

\* parse_optional_identifier_less_signature (parser.rs:1955-1992), its loop.
RECURSIVE IdentifierLessSignature(_, _, _)
IdentifierLessSignature(iter, params, results) ==
    IF ~ChildAhead(iter) THEN Ok([params |-> params, results |-> results], iter)
    ELSE CASE child_node_name(iter) = "param" ->
                Let([data_type \in {parse_identifier_less_param_node(iter)} |-> Try(data_type,
                    IdentifierLessSignature(data_type.iter, Append(params, data_type.value), results))])
           [] child_node_name(iter) = "params" ->
                Let([data_types \in {parse_identifier_less_params_node(iter)} |->
                        Try(data_types,
                    IdentifierLessSignature(data_types.iter, params \o data_types.value, results))])
           [] child_node_name(iter) = "result" ->
                Let([data_type \in {parse_result_node(iter)} |-> Try(data_type,
                    IdentifierLessSignature(data_type.iter, params, Append(results, data_type.value)))])
           [] child_node_name(iter) = "results" ->
                Let([data_types \in {parse_results_node(iter)} |-> Try(data_types,
                    IdentifierLessSignature(data_types.iter, params, results \o data_types.value))])
           [] OTHER -> Ok([params |-> params, results |-> results], iter)

parse_optional_identifier_less_signature(iter) == IdentifierLessSignature(iter, << >>, << >>)

parse_external_function_node(iter) ==
    Let([a \in {consume_left_paren(iter, "external.function)")} |-> Try(a,
    Let([b \in {consume_symbol(a.iter, "function")} |-> Try(b,
    Let([id \in {expect_identifier(b.iter, "external.function.id")} |-> Try(id,
    Let([name \in {expect_string(id.iter, "external.function.name")} |-> Try(name,
    Let([signature \in {parse_optional_identifier_less_signature(name.iter)} |-> Try(signature,
    Let([e \in {consume_right_paren(signature.iter)} |-> Try(e,
    IF contains_separator(id.value)
    THEN Err("The id of external function can not contains path separator")
    ELSE Ok([item |-> "ExternalFunction", id |-> id.value, name |-> name.value,
             params |-> signature.value.params, results |-> signature.value.results], e.iter))]))]))]))]))]))])

\* The loop of parse_external_node (parser.rs:1853-1868).
RECURSIVE ExternalItems(_, _)
ExternalItems(iter, external_items) ==
    IF ~ChildAhead(iter) THEN Ok(external_items, iter)
    ELSE IF child_node_name(iter) = "function"
         THEN Let([external_item \in {parse_external_function_node(iter)} |-> Try(external_item,
                  ExternalItems(external_item.iter, Append(external_items, external_item.value)))])
         ELSE Err("Unknown external item")

parse_external_node(iter) ==
    Let([a \in {consume_left_paren(iter, "external")} |-> Try(a,
    Let([b \in {consume_symbol(a.iter, "external")} |-> Try(b,
    Let([external_items \in {ExternalItems(b.iter, << >>)} |-> Try(external_items,
    Let([e \in {consume_right_paren(external_items.iter)} |-> Try(e,
    Ok([node |-> "ExternalNode", external_items |-> external_items.value], e.iter))]))]))]))])

\* ver_string.split('.') (parser.rs:140): parts is the parts before the one
\* being read, part the characters of that one read so far.
RECURSIVE split(_, _, _, _)
split(chars, separator, parts, part) ==
    IF chars = << >> THEN Append(parts, part)
    ELSE IF Head(chars) = separator THEN split(Tail(chars), separator, Append(parts, part), << >>)
    ELSE split(Tail(chars), separator, parts, Append(part, Head(chars)))

\* The value is (major, minor), each a u16.
parse_version(ver_string) ==
    Let([ver_parts \in {split(ver_string, ".", << >>, << >>)} |->
    IF Len(ver_parts) # 2 THEN Err("Error version number") ELSE
    Let([major \in {from_str_radix(ver_parts[1], 10, 1, FALSE)} |->
    Let([minor \in {from_str_radix(ver_parts[2], 10, 1, FALSE)} |->
    IF major.error # "none" THEN Err("Major version is not a valid number.")
    ELSE IF minor.error # "none" THEN Err("Minor version is not a valid number.")
    ELSE Ok(<<major.limbs[1], minor.limbs[1]>>, << >>)])])])

parse_import_module_node(iter) ==
    Let([a \in {consume_left_paren(iter, "import.module")} |-> Try(a,
    Let([b \in {consume_symbol(a.iter, "module")} |-> Try(b,
    Let([module_share_type_str \in {expect_symbol(b.iter, "import.module.share_type")} |->
            Try(module_share_type_str,
    IF module_share_type_str.value \notin {"share", "user"} THEN Err("Unknown module share type") ELSE
    Let([name \in {expect_string(module_share_type_str.iter, "import.module.name")} |->
            Try(name,
    Let([ver_string \in {expect_string(name.iter, "import.module.version")} |-> Try(ver_string,
    Let([e \in {consume_right_paren(ver_string.iter)} |-> Try(e,
    Let([version \in {parse_version(ver_string.value)} |-> Try(version,
    Ok([module_share_type |-> IF module_share_type_str.value = "share" THEN "Share" ELSE "User",
        name |-> name.value, version_major |-> version.value[1],
        version_minor |-> version.value[2]], e.iter))]))]))]))]))]))]))])

parse_import_function_node(iter) ==
    Let([a \in {consume_left_paren(iter, "import.function)")} |-> Try(a,
    Let([b \in {consume_symbol(a.iter, "function")} |-> Try(b,
    Let([id \in {expect_identifier(b.iter, "import.function.id")} |-> Try(id,
    Let([name_path \in {expect_string(id.iter, "import.function.name")} |-> Try(name_path,
    Let([signature \in {parse_optional_identifier_less_signature(name_path.iter)} |->
            Try(signature,
    Let([e \in {consume_right_paren(signature.iter)} |-> Try(e,
    IF contains_separator(id.value)
    THEN Err("The id of import function can not contains path separator")
    ELSE Ok([item |-> "ImportFunction", id |-> id.value, name_path |-> name_path.value,
             params |-> signature.value.params, results |-> signature.value.results], e.iter))]))]))]))]))]))])

parse_memory_data_type(memory_data_type_str) ==
    CASE memory_data_type_str = "i32" -> Ok("I32", << >>)
      [] memory_data_type_str = "i64" -> Ok("I64", << >>)
      [] memory_data_type_str = "f32" -> Ok("F32", << >>)
      [] memory_data_type_str = "f64" -> Ok("F64", << >>)
      [] memory_data_type_str = "bytes" -> Ok("Bytes", << >>)
      [] OTHER -> Err("Unknown imported data memory data type")

parse_simplified_data_kind_node(iter) ==
    Let([a \in {consume_left_paren(iter, "import.data.kind")} |-> Try(a,
    Let([kind \in {expect_symbol(a.iter, "import.data.kind")} |-> Try(kind,
    Let([memory_data_type_str \in {expect_symbol(kind.iter, "import.data.type")} |->
            Try(memory_data_type_str,
    Let([e \in {consume_right_paren(memory_data_type_str.iter)} |-> Try(e,
    Let([memory_data_type \in {parse_memory_data_type(memory_data_type_str.value)} |->
            Try(memory_data_type,
    CASE kind.value = "read_only" ->
            Ok([kind |-> "ReadOnly", memory_data_type |-> memory_data_type.value], e.iter)
      [] kind.value = "read_write" ->
            Ok([kind |-> "ReadWrite", memory_data_type |-> memory_data_type.value], e.iter)
      [] kind.value = "uninit" ->
            Ok([kind |-> "Uninit", memory_data_type |-> memory_data_type.value], e.iter)
      [] OTHER -> Err("Unknown import data kind"))]))]))]))]))])

parse_import_data_node(iter) ==
    Let([a \in {consume_left_paren(iter, "import.data)")} |-> Try(a,
    Let([b \in {consume_symbol(a.iter, "data")} |-> Try(b,
    Let([id \in {expect_identifier(b.iter, "import.data.id")} |-> Try(id,
    Let([name_path \in {expect_string(id.iter, "import.data.name")} |-> Try(name_path,
    Let([data_kind_node \in {parse_simplified_data_kind_node(name_path.iter)} |->
            Try(data_kind_node,
    Let([e \in {consume_right_paren(data_kind_node.iter)} |-> Try(e,
    IF contains_separator(id.value)
    THEN Err("The id of import data can not contains path separator")
    ELSE Ok([item |-> "ImportData", id |-> id.value, name_path |-> name_path.value,
             data_kind_node |-> data_kind_node.value], e.iter))]))]))]))]))]))])

\* The loop of parse_import_node (parser.rs:2047-2063).
RECURSIVE ImportItems(_, _)
ImportItems(iter, import_items) ==
    IF ~ChildAhead(iter) THEN Ok(import_items, iter)
    ELSE Let([import_item \in {CASE child_node_name(iter) = "function" -> parse_import_function_node(iter)
                   [] child_node_name(iter) = "data" -> parse_import_data_node(iter)
                   [] OTHER -> Err("Unknown import item")} |-> Try(import_item,
             ImportItems(import_item.iter, Append(import_items, import_item.value)))])

parse_import_node(iter) ==
    Let([a \in {consume_left_paren(iter, "import")} |-> Try(a,
    Let([b \in {consume_symbol(a.iter, "import")} |-> Try(b,
    Let([import_module_node \in {parse_import_module_node(b.iter)} |-> Try(import_module_node,
    Let([import_items \in {ImportItems(import_module_node.iter, << >>)} |-> Try(import_items,
    Let([e \in {consume_right_paren(import_items.iter)} |-> Try(e,
    Ok([node |-> "ImportNode", import_module_node |-> import_module_node.value,
        import_items |-> import_items.value], e.iter))]))]))]))]))])

----------------------------------------------------------------------------
(* parser.rs: the module (parser.rs:19-137)                                *)

parse_module_compiler_version_node(iter) ==
    Let([a \in {consume_left_paren(iter, "module.runtime_version")} |-> Try(a,
    Let([b \in {consume_symbol(a.iter, "compiler_version")} |-> Try(b,
    Let([ver_string \in {expect_string(b.iter, "module.runtime_version")} |-> Try(ver_string,
    Let([e \in {consume_right_paren(ver_string.iter)} |-> Try(e,
    Let([version \in {parse_version(ver_string.value)} |-> Try(version,
    Ok(version.value, e.iter))]))]))]))]))])

\* The loop of parse_module_node (parser.rs:90-108).
RECURSIVE Elements(_, _, _)
Elements(iter, map, element_nodes) ==
    IF ~ChildAhead(iter) THEN Ok(element_nodes, iter)
    ELSE Let([element_node \in {CASE child_node_name(iter) = "function" -> parse_function_node(iter, map)
                   [] child_node_name(iter) = "data" -> parse_data_node(iter)
                   [] child_node_name(iter) = "external" -> parse_external_node(iter)
                   [] child_node_name(iter) = "import" -> parse_import_node(iter)
                   [] OTHER -> Err("Unknown module element")} |-> Try(element_node,
             Elements(element_node.iter, map, Append(element_nodes, element_node.value)))])

\* The optional (constructor $name) node (parser.rs:51-67).  The symbol it
\* consumes after the parenthesis is "module.constructor" (parser.rs:60).
Constructor(iter, is_sub_module) ==
    IF ~exist_child_node(iter, "constructor") THEN Ok(OptionNone, iter) ELSE
    IF is_sub_module THEN Err("Only the main module can define the constructor function") ELSE
    Let([a \in {consume_left_paren(iter, "constructor")} |-> Try(a,
    Let([b \in {consume_symbol(a.iter, "module.constructor")} |-> Try(b,
    Let([name_path \in {expect_identifier(b.iter, "module.constructor")} |-> Try(name_path,
    Let([e \in {consume_right_paren(name_path.iter)} |-> Try(e,
    Ok(OptionSome(name_path.value), e.iter))]))]))]))])

\* A parser that takes the (destructor $name) node in any module.
DestructorOfAnyModule(iter, is_sub_module) ==
    IF ~exist_child_node(iter, "destructor") THEN Ok(OptionNone, iter) ELSE
    Let([b \in {consume_symbol(Tail(iter), "destructor")} |-> Try(b,
    Let([name_path \in {expect_identifier(b.iter, "destructor")} |-> Try(name_path,
    Let([e \in {consume_right_paren(name_path.iter)} |-> Try(e,
    Ok(OptionSome(name_path.value), e.iter))]))]))])

\* The optional (destructor $name) node (parser.rs:69-85).
Destructor(iter, is_sub_module) ==
    IF ~exist_child_node(iter, "destructor") THEN Ok(OptionNone, iter) ELSE
    IF is_sub_module THEN Err("Only the main module can define the constructor function") ELSE
    Let([a \in {consume_left_paren(iter, "destructor")} |-> Try(a,
    Let([b \in {consume_symbol(a.iter, "destructor")} |-> Try(b,
    Let([name_path \in {expect_identifier(b.iter, "destructor")} |-> Try(name_path,
    Let([e \in {consume_right_paren(name_path.iter)} |-> Try(e,
    Ok(OptionSome(name_path.value), e.iter))]))]))]))])

parse_module_node(iter, map) ==
    Let([a \in {consume_left_paren(iter, "module")} |-> Try(a,
    Let([b \in {consume_symbol(a.iter, "module")} |-> Try(b,
    Let([name_path \in {expect_identifier(b.iter, "module.name")} |-> Try(name_path,
    Let([compiler_version \in {parse_module_compiler_version_node(name_path.iter)} |->
            Try(compiler_version,
    Let([is_sub_module \in {contains_separator(name_path.value)} |->
    Let([constructor_function_name_path \in {Constructor(compiler_version.iter, is_sub_module)} |->
            Try(constructor_function_name_path,
    Let([destructor_function_name_path \in {Destructor(constructor_function_name_path.iter, is_sub_module)} |->
            Try(destructor_function_name_path,
    Let([element_nodes \in {Elements(destructor_function_name_path.iter, map, << >>)} |->
            Try(element_nodes,
    Let([e \in {consume_right_paren(element_nodes.iter)} |-> Try(e,
    Ok([name_path |-> name_path.value,
        compiler_version_major |-> compiler_version.value[1],
        compiler_version_minor |-> compiler_version.value[2],
        constructor_function_name_path |-> constructor_function_name_path.value,
        destructor_function_name_path |-> destructor_function_name_path.value,
        element_nodes |-> element_nodes.value], e.iter))]))]))]))])]))]))]))]))])

\* parse (parser.rs:19-25) called by the one thread of a program whose
\* statics are once and map: init_instruction_map() leaves the Once complete
\* and the table in the static, built now unless it was built before
\* (native_assembly_instruction.rs:132-136, 937); parse_module_node then reads
\* that table.
MapAfterInit(once, map) == IF MustRun(once) THEN Some(FullTable) ELSE map

parse(iter, once, map) == parse_module_node(iter, MapAfterInit(once, map))

----------------------------------------------------------------------------
(* The callers of the parser: the token sequences they hand to parse, and   *)
(* the number tokens and data items they hand to parse_u32_string,         *)
(* parse_u64_string and parse_inited_data.                                 *)

\* The tokens of the node (name body...).
Node(name, body) == <<LeftParen, Symbol(name)>> \o body \o <<RightParen>>

\* The concatenation of a sequence of token sequences.
RECURSIVE Concat(_)
Concat(seqs) == IF seqs = << >> THEN << >> ELSE Head(seqs) \o Concat(Tail(seqs))

\* The sequences over the set S of length at most n.
RECURSIVE SeqsUpTo(_, _)
SeqsUpTo(S, n) ==
    IF n = 0 THEN {<< >>}
    ELSE LET shorter == SeqsUpTo(S, n - 1)
         IN shorter \cup {Append(s, x) : s \in shorter, x \in S}

\* The digits of a small number, and the decimal token of it.
Decimal(k) == Number("Decimal", Spelling(<<k, 0>>, 10))

\* (module $name_path (compiler_version "1.0") children...)
Version10 == <<"1", ".", "0">>

ModuleTokens(name_path, ver_string, children) ==
    Node("module", <<Identifier(name_path)>> \o Node("compiler_version", <<String_(ver_string)>>)
                   \o children)

MainModule(children) == ModuleTokens(<<"app">>, Version10, children)

\* (function annotations... $name children...)
FunctionTokens(annotations, name, children) ==
    Node("function", annotations \o <<Identifier(name)>> \o children)

EmptyCode == Node("code", << >>)

\* The module names: a main module and a submodule.  The function names a
\* (constructor ..) or (destructor ..) node gives: a name and a name path.
ModuleNames == {<<"app">>, <<"app", "utils">>}

FunctionNamePaths == {<<"init">>, <<"utils", "init">>}

\* The header of a module: with or without each of the two optional nodes,
\* and with a version string that is none.
OptionalNodes(name) == {<< >>} \cup {Node(name, <<Identifier(p)>>) : p \in FunctionNamePaths}

VersionStrings == {Version10, <<"1">>, <<"1", ".", "x">>, <<"1", ".", "0", ".", "0">>}

HeaderInputs ==
    {ModuleTokens(m, Version10, c \o d) :
        m \in ModuleNames, c \in OptionalNodes("constructor"), d \in OptionalNodes("destructor")}
    \cup {ModuleTokens(m, Version10, d \o c) :
        m \in ModuleNames, c \in OptionalNodes("constructor"), d \in OptionalNodes("destructor")}
    \cup {ModuleTokens(<<"app">>, v, << >>) : v \in VersionStrings}

\* The children of a (function ..) node, in every order.
MaxChildren == 3

\* The kinds of child: two parameters, a result, a results node, a local
\* variable and the code.
FunctionChildKinds == {"param a", "param b", "result", "results", "local", "code"}

FunctionChild(kind) ==
    CASE kind = "param a" -> Node("param", <<Identifier(<<"a">>), Symbol("i32")>>)
      [] kind = "param b" -> Node("param", <<Identifier(<<"b">>), Symbol("i64")>>)
      [] kind = "result" -> Node("result", <<Symbol("f32")>>)
      [] kind = "results" -> Node("results", <<Symbol("i32"), Symbol("f64")>>)
      [] kind = "local" -> Node("local", <<Identifier(<<"x">>), Symbol("i64")>>)
      [] kind = "code" -> Node("code", << >>)

ChildrenInput(kinds) ==
    MainModule(FunctionTokens(<< >>, <<"f">>,
                              Concat([k \in 1..Len(kinds) |-> FunctionChild(kinds[k])])))

ChildrenInputs == {ChildrenInput(kinds) : kinds \in SeqsUpTo(FunctionChildKinds, MaxChildren)}

\* The annotations of a function: export, a calling convention and an export
\* name, each present or not.
Annotations ==
    {<< >>, <<Symbol("export")>>,
     <<Symbol("export"), String_(<<"C">>)>>,
     <<Symbol("export"), String_(<<"C">>), String_(<<"a", "d", "d">>)>>,
     <<String_(<<"C">>)>>,
     <<String_(<<"C">>), String_(<<"a", "d", "d">>)>>,
     <<Symbol("export"), String_(<<"C">>), String_(<<"a", "d", "d">>), String_(<<"x">>)>>}

AnnotationInputs ==
    {MainModule(FunctionTokens(a, <<"add">>, EmptyCode)) : a \in Annotations}

\* The names of the things a module defines: a name and a name path.
Names == {<<"sum">>, <<"utils", "sum">>}

LocalTypes == {<<Symbol("i32")>>, Node("bytes", <<Decimal(12)>>)}

NameInputs ==
    {MainModule(FunctionTokens(<< >>, n, EmptyCode)) : n \in Names}
    \cup {MainModule(FunctionTokens(<< >>, <<"f">>, Node("local", <<Identifier(n)>> \o t) \o EmptyCode)) :
            n \in Names, t \in LocalTypes}
    \cup {MainModule(Node("data", <<Identifier(n)>> \o Node(k, <<Symbol("i32"), Decimal(123)>>))) :
            n \in Names, k \in {"read_only", "read_write", "thread_local_read_write"}}
    \cup {MainModule(Node("data", <<Symbol("export"), Identifier(n)>> \o Node(k, t))) :
            n \in Names, k \in {"uninit", "thread_local_uninit"},
            t \in {<<Symbol("i32")>>, Node("bytes", <<Decimal(12), Decimal(4)>>)}}
    \cup {MainModule(Node("external", Node("function", <<Identifier(n), String_(<<"a", "d", "d">>)>>
                                                     \o s))) :
            n \in Names, s \in {<< >>, Node("param", <<Symbol("i32")>>) \o Node("result", <<Symbol("i32")>>),
                                Node("params", <<Symbol("i32"), Symbol("i64")>>)}}
    \cup {MainModule(Node("import", Node("module", <<Symbol("share"), String_(<<"m">>), String_(Version10)>>)
                                    \o Node("function", <<Identifier(n), String_(<<"a", "d", "d">>)>>))) :
            n \in Names}
    \cup {MainModule(Node("import", Node("module", <<Symbol("user"), String_(<<"m">>), String_(Version10)>>)
                                    \o Node("data", <<Identifier(n), String_(<<"s">>)>>
                                                    \o Node("read_only", <<Symbol(t)>>)))) :
            n \in Names, t \in {"i32", "bytes"}}

\* A function whose code is the given instructions.
CodeInput(instructions) ==
    MainModule(FunctionTokens(<< >>, <<"f">>, Node("code", instructions)))

\* The children of a (branch ..) node, in every order: cases, which differ in
\* the number they test, and defaults.
Imm(k) == Node("i32.imm", <<Decimal(k)>>)

\* The kinds of child: the case that tests the number k, for k = 1 and 2, and
\* the default, which is kind 0.
BranchChildKinds == {0, 1, 2}

BranchChild(kind) ==
    IF kind = 0
    THEN Node("default", Node("do", << >>))
    ELSE Node("case", Imm(kind) \o Node("do", << >>))

BranchInput(kinds) ==
    CodeInput(Node("branch", Node("result", <<Symbol("i32")>>)
                             \o Concat([k \in 1..Len(kinds) |-> BranchChild(kinds[k])])))

BranchInputs == {BranchInput(kinds) : kinds \in SeqsUpTo(BranchChildKinds, MaxChildren)}

\* A well-formed instruction node of a row of the table: the operands the
\* kind of the row takes.
Operands(kind) ==
    CASE kind \in {"LocalLoad", "DataLoad", "AddrFunction"} -> <<Identifier(<<"x">>)>>
      [] kind \in {"LocalStore", "DataStore"} -> <<Identifier(<<"x">>), Decimal(4)>> \o Imm(1)
      [] kind = "MemoryLoad" -> Imm(1)
      [] kind = "MemoryStore" -> <<Decimal(8)>> \o Imm(1) \o Imm(2)
      [] kind = "UnaryOp" -> Imm(1)
      [] kind = "UnaryOpWithImmI64" -> <<Decimal(3)>> \o Imm(1)
      [] kind \in {"BinaryOp", "When", "AtomicRmw"} -> Imm(1) \o Imm(2)
      [] kind \in {"ImmI32", "ImmI64", "Trap"} -> <<Decimal(5)>>
      [] kind \in {"ImmF32", "ImmF64"} -> <<Number("Decimal", <<"3", ".", "1", "4">>)>>
      [] kind = "If" -> Node("result", <<Symbol("i32")>>) \o Imm(1) \o Imm(2) \o Imm(3)
      [] kind = "Branch" -> Node("case", Imm(1) \o Imm(2)) \o Node("default", Imm(3))
      [] kind = "For" -> Node("param", <<Identifier(<<"n">>), Symbol("i32")>>)
                         \o Node("result", <<Symbol("i32")>>) \o Node("do", Imm(1))
      [] kind = "Sequence" -> Imm(1) \o Imm(2)
      [] kind = "Call" -> <<Identifier(<<"f">>)>> \o Imm(1) \o Imm(2)
      [] kind = "DynCall" -> Imm(1) \o Imm(2)
      [] kind = "SysCall" -> <<Decimal(1)>> \o Imm(2)
      [] kind = "AtomicCas" -> Imm(1) \o Imm(2) \o Imm(3)

WellFormed(row) == Node(row[1], Operands(row[2]))

\* An instruction node of each name of the table, and the nodes that differ
\* from those: without the optional offset or with the offset in another
\* place, with a literal of another form, with an operand too few or too
\* many, of a name that is not in the table, without a name.
InstructionInputs ==
    {CodeInput(WellFormed(Table[k])) : k \in 1..Len(Table)}
    \cup {CodeInput(i) : i \in
        {Imm(11),
         Node("i32.imm", <<Number("Hex", <<"f", "f">>)>>),
         Node("i32.imm", <<Number("HexFloat", <<"1", ".", "8", "p", "1">>)>>),
         Node("i64.imm", <<Number("Hex", <<"f", "f", "f", "f", "f", "f", "f", "f", "f">>)>>),
         Node("f32.imm", <<Number("Decimal", <<"1", "e", "5">>)>>),
         Node("f32.imm", <<Number("Hex", <<"f", "f">>)>>),
         Node("f64.imm", <<Number("Decimal", <<"1", ".", "_", "0">>)>>),
         Node("f64.imm", <<Number("Decimal", <<"x">>)>>),
         Node("f64.imm", << >>),
         Node("local.load64_i64", <<Identifier(<<"x">>)>>),
         Node("local.load64_i64", <<Identifier(<<"x">>), Decimal(8)>>),
         Node("local.load32_i32", <<Decimal(8), Identifier(<<"x">>)>>),
         Node("local.store32", <<Identifier(<<"x">>)>> \o Imm(1)),
         Node("local.store32", <<Identifier(<<"x">>)>>),
         Node("data.load32_i32", <<Identifier(<<"d">>), Number("Decimal", <<"-", "1">>)>>),
         Node("data.store64", <<Identifier(<<"d">>)>> \o Imm(1) \o Imm(2)),
         Node("memory.load32_i32", <<Decimal(8)>> \o Imm(1)),
         Node("memory.load32_i32", << >>),
         Node("memory.store32", Imm(1) \o Imm(2)),
         Node("memory.store32", Imm(1)),
         Node("i32.eqz", << >>),
         Node("i32.inc", Imm(1)),
         Node("i32.inc", <<Number("HexFloat", <<"1", ".", "8", "p", "1">>)>> \o Imm(1)),
         Node("i32.add", Imm(1)),
         Node("i32.add", Imm(1) \o Imm(2) \o Imm(3)),
         Node("i32.add", Node("i32.mul", Imm(1) \o Imm(2)) \o Imm(3)),
         Node("when", Imm(1)),
         Node("if", Imm(1) \o Imm(2) \o Imm(3)),
         Node("if", Imm(1) \o Imm(2)),
         Node("for", Node("do", << >>)),
         Node("for", << >>),
         Node("break", << >>),
         Node("call", <<Identifier(<<"utils", "f">>)>>),
         Node("call", Imm(1)),
         Node("dyncall", << >>),
         Node("syscall", <<Decimal(1)>> \o Imm(2)),
         Node("syscall", Imm(2)),
         Node("trap", << >>),
         Node("trap", <<Decimal(1), Decimal(2)>>),
         Node("addr.function", <<Decimal(1)>>),
         Node("do", Imm(1) \o Imm(2)),
         Node("do", Node("i32.atomic_cas", << >>)),
         Node("nop", << >>),
         Node("envcall", <<Decimal(1)>>),
         Node("do", Node("nop", << >>)),
         <<LeftParen, Decimal(1), RightParen>>}}

ParseInputs ==
    HeaderInputs \cup ChildrenInputs \cup AnnotationInputs \cup NameInputs
    \cup BranchInputs \cup InstructionInputs

\* The integer literals: every value in every radix, and the spellings with
\* a sign, with underscores and with capital letters.
U32Inputs ==
    {<<Number(form, Spelling(v, RadixOf(form)))>> : form \in IntegerForms, v \in U32Values}
    \cup {<<Number("Decimal", <<"-", "1">>)>>, <<Number("Decimal", <<"1", "_", "0", "0", "0">>)>>,
          <<Number("Hex", <<"F", "F">>)>>, <<Number("Hex", <<"-", "1">>)>>,
          <<Number("HexFloat", <<"1", ".", "8", "p", "1">>)>>, <<Number("Binary", <<"1", "2">>)>>}

U64Inputs ==
    {<<Number(form, Spelling(v, RadixOf(form)))>> : form \in IntegerForms, v \in U64Values}

\* The data items: a type and a value.
DataStrings == {<< >>, <<"H", "i", "!">>, <<"U+00E9">>, <<"H", "U+4E2D">>}

DataBytes == {<< >>, <<17, 19, 23, 29>>, <<255>>}

InitedDataInputs ==
    {<<Symbol("i32")>> \o n : n \in U32Inputs}
    \cup {<<Symbol("i64")>> \o n : n \in U64Inputs}
    \cup {<<Symbol(t), Number("Decimal", f)>> : t \in {"f32", "f64"}, f \in FloatLiterals}
    \cup {<<Symbol(t), String_(s)>> : t \in {"string", "cstring"}, s \in DataStrings}
    \cup {Node("bytes", <<Decimal(a)>>) \o <<ByteData(b)>> : a \in {1, 2, 16}, b \in DataBytes}
    \cup {<<Symbol("i32"), String_(<<"H">>)>>, <<Symbol("u8"), Decimal(1)>>, << >>,
          <<Symbol("string"), Decimal(1)>>, Node("bytes", << >>) \o <<ByteData(<<1>>)>>}

InitSyntax ==
    /\ ParserAtRest
    /\ EncoderAtRest
    /\ CodegenAtRest
    /\ \/ callee = "parse" /\ tokens \in ParseInputs
       \/ callee = "parse_u32_string" /\ tokens \in U32Inputs
       \/ callee = "parse_u64_string" /\ tokens \in U64Inputs
       \/ callee = "parse_inited_data" /\ tokens \in InitedDataInputs
    /\ result = Pending

\* The caller calls parse on an iterator over the tokens (parser.rs:19-25).
Parse ==
    /\ callee = "parse"
    /\ result.tag = "Pending"
    /\ result' = parse(tokens, INIT, INSTRUCTION_MAP)
    /\ INSTRUCTION_MAP' = MapAfterInit(INIT, INSTRUCTION_MAP)
    /\ runs' = IF MustRun(INIT) THEN runs + 1 ELSE runs
    /\ INIT' = "complete"
    /\ UNCHANGED <<thread, callee, tokens>>
    /\ UNCHANGED <<encoderVars, codegenVars>>

ParseU32String ==
    /\ callee = "parse_u32_string"
    /\ result.tag = "Pending"
    /\ result' = parse_u32_string(tokens[1])
    /\ UNCHANGED <<callee, tokens>>
    /\ UNCHANGED <<encoderVars, parserVars, codegenVars>>

ParseU64String ==
    /\ callee = "parse_u64_string"
    /\ result.tag = "Pending"
    /\ result' = parse_u64_string(tokens[1])
    /\ UNCHANGED <<callee, tokens>>
    /\ UNCHANGED <<encoderVars, parserVars, codegenVars>>

ParseInitedData ==
    /\ callee = "parse_inited_data"
    /\ result.tag = "Pending"
    /\ result' = parse_inited_data(tokens)
    /\ UNCHANGED <<callee, tokens>>
    /\ UNCHANGED <<encoderVars, parserVars, codegenVars>>

NextSyntax == Parse \/ ParseU32String \/ ParseU64String \/ ParseInitedData

SpecSyntax == InitSyntax /\ [][NextSyntax]_vars

----------------------------------------------------------------------------
(* The module header                                                       *)

\* parse has returned, or ended, on the caller's tokens.
Parsed == callee = "parse" /\ result.tag # "Pending"

\* What ModuleNode holds for an optional node of the header: None for no
\* node, Some(identifier) for (constructor $identifier).
NamePathOf(node) == IF node = << >> THEN OptionNone ELSE OptionSome(node[3].text)

\* C21: a main module, whose name has no name-path separator, may carry a
\* (constructor $function_name_path) node and a (destructor
\* $function_name_path) node after compiler_version: it parses, and the
\* ModuleNode holds Some(identifier) for each node that is there and None for
\* each that is not.
C21_OptionalConstructorDestructor ==
    \A c \in OptionalNodes("constructor"), d \in OptionalNodes("destructor") :
        (Parsed /\ tokens = MainModule(c \o d)) =>
            /\ result.tag = "Ok"
            /\ result.value.constructor_function_name_path = NamePathOf(c)
            /\ result.value.destructor_function_name_path = NamePathOf(d)

\* The main module with a (constructor $init) node has been parsed, and the
\* parser has returned an error for it.
C21_ConstructorRejected ==
    /\ Parsed
    /\ tokens = MainModule(Node("constructor", <<Identifier(<<"init">>)>>))
    /\ result.tag = "Err"
    /\ result.message = "Expect token"

\* The main module of the inputs and the submodule of them.
SubModuleName == <<"app", "utils">>

\* C22: a submodule, whose name contains the name-path separator, with a
\* (constructor ..) or a (destructor ..) node after compiler_version is
\* rejected with a ParseError: only the main module can define them.
C22_SubModuleRejected ==
    \A c \in OptionalNodes("constructor"), d \in OptionalNodes("destructor") :
        (/\ Parsed
         /\ c \o d # << >>
         /\ tokens \in {ModuleTokens(SubModuleName, Version10, c \o d),
                        ModuleTokens(SubModuleName, Version10, d \o c)})
            => /\ result.tag = "Err"
               /\ result.message = "Only the main module can define the constructor function"

\* The submodule with nothing but a (destructor $init) node has been parsed
\* and rejected.
C22_SubModuleDestructorParsed ==
    /\ Parsed
    /\ contains_separator(SubModuleName)
    /\ tokens = ModuleTokens(SubModuleName, Version10, Node("destructor", <<Identifier(<<"init">>)>>))
    /\ result.tag = "Err"

----------------------------------------------------------------------------
(* The names a module defines                                              *)

\* The names of every kind that a parsed module holds: the names of its
\* functions and of their local variables, the names of its data, the ids of
\* its external functions and the ids of its imported functions and data.
RECURSIVE NamesOfItems(_)
NamesOfItems(items) ==
    IF items = << >> THEN {}
    ELSE LET item == Head(items)
         IN (CASE item.node = "FunctionNode" ->
                    {item.name} \cup {item.locals[k].name : k \in 1..Len(item.locals)}
               [] item.node = "DataNode" -> {item.name}
               [] item.node = "ExternalNode" ->
                    {item.external_items[k].id : k \in 1..Len(item.external_items)}
               [] item.node = "ImportNode" ->
                    {item.import_items[k].id : k \in 1..Len(item.import_items)}
               [] OTHER -> {})
            \cup NamesOfItems(Tail(items))

\* The name with a name-path separator in it that the inputs give to the
\* things of a module.
NamePath == <<"utils", "sum">>

HasNamePath(iter) == \E k \in 1..Len(iter) : iter[k] = Identifier(NamePath)

NameErrors ==
    {"The name of function can not contains path separator",
     "The name of local variable can not contains path separator",
     "The name of data can not contains path separator",
     "The id of external function can not contains path separator",
     "The id of import function can not contains path separator",
     "The id of import data can not contains path separator"}

\* C23: parse never returns a module in which a function name, a local
\* variable name, a data name, an external function id or an import function
\* or data id contains the name-path separator: each such input yields a
\* ParseError.
C23_NoSeparatorInNames ==
    /\ (Parsed /\ result.tag = "Ok") =>
            \A name \in NamesOfItems(result.value.element_nodes) : Len(name) = 1
    /\ (Parsed /\ HasNamePath(tokens)) =>
            (result.tag = "Err" /\ result.message \in NameErrors)

\* The module that imports a data item under an id with a separator in it
\* has been parsed and rejected for that id.
C23_ImportDataIdRejected ==
    /\ Parsed
    /\ HasNamePath(tokens)
    /\ result.tag = "Err"
    /\ result.message = "The id of import data can not contains path separator"

----------------------------------------------------------------------------
(* The children of a branch                                                *)

\* The first instruction of the code of the first function of a parsed
\* module.
FirstInstruction(module_node) == module_node.element_nodes[1].code[1]

\* The children are cases followed by at most one default.
CasesThenDefault(kinds) == \A k \in 1..Len(kinds) : kinds[k] = 0 => k = Len(kinds)

\* The numbers the cases test, in the order of the cases.
TestsOf(cases) == [k \in 1..Len(cases) |-> cases[k].test.value[1]]

\* The kinds without a default at their end.
CaseKinds(kinds) ==
    IF kinds # << >> /\ kinds[Len(kinds)] = 0 THEN SubSeq(kinds, 1, Len(kinds) - 1) ELSE kinds

\* C24: a Branch holds its cases in source order and at most one default,
\* and the default comes only after all the cases: a (case ..) after the
\* (default ..) and a second (default ..) are each a ParseError.
C24_CasesThenOneDefault ==
    \A kinds \in SeqsUpTo(BranchChildKinds, MaxChildren) :
        (Parsed /\ tokens = BranchInput(kinds)) =>
            IF CasesThenDefault(kinds)
            THEN /\ result.tag = "Ok"
                 /\ FirstInstruction(result.value).op = "Branch"
                 /\ TestsOf(FirstInstruction(result.value).cases) = CaseKinds(kinds)
                 /\ FirstInstruction(result.value).default.tag
                        = (IF kinds = CaseKinds(kinds) THEN "None" ELSE "Some")
            ELSE result.tag = "Err"

\* The branch with the cases 2 and 1 and a default after them has been
\* parsed: it holds the two cases in that order and the default.
C24_BranchParsed ==
    /\ Parsed
    /\ tokens = BranchInput(<<2, 1, 0>>)
    /\ result.tag = "Ok"
    /\ TestsOf(FirstInstruction(result.value).cases) = <<2, 1>>
    /\ FirstInstruction(result.value).default.tag = "Some"

----------------------------------------------------------------------------
(* The children of a function                                              *)

FirstFunction(module_node) == module_node.element_nodes[1]

SignatureKinds == {"param a", "param b", "result", "results"}

\* The children are signature nodes, then local variables, then the one
\* code node.
SignatureLocalsCode(kinds) ==
    /\ kinds # << >>
    /\ kinds[Len(kinds)] = "code"
    /\ \A k \in 1..(Len(kinds) - 1) : kinds[k] # "code"
    /\ \A j, k \in 1..Len(kinds) : (j < k /\ kinds[j] = "local") => kinds[k] \notin SignatureKinds

\* The parameters and the results that the children declare, in the order of
\* the children.
RECURSIVE ParamsOf(_)
ParamsOf(kinds) ==
    IF kinds = << >> THEN << >>
    ELSE (CASE Head(kinds) = "param a" -> <<[name |-> <<"a">>, data_type |-> "I32"]>>
            [] Head(kinds) = "param b" -> <<[name |-> <<"b">>, data_type |-> "I64"]>>
            [] OTHER -> << >>)
         \o ParamsOf(Tail(kinds))

RECURSIVE ResultsOf(_)
ResultsOf(kinds) ==
    IF kinds = << >> THEN << >>
    ELSE (CASE Head(kinds) = "result" -> <<"F32">>
            [] Head(kinds) = "results" -> <<"I32", "F64">>
            [] OTHER -> << >>)
         \o ResultsOf(Tail(kinds))

LocalsOf(kinds) == Len(SelectSeq(kinds, LAMBDA kind : kind = "local"))

\* C25: the children of a function come in the order: param, result and
\* results nodes, whose parameters and results are kept in source order;
\* then local nodes; then exactly one (code ..) node; then the closing
\* parenthesis.  A param or result after a local, a local after the code, a
\* missing code node and a second code node are each a ParseError.
C25_FunctionChildrenOrder ==
    \A kinds \in SeqsUpTo(FunctionChildKinds, MaxChildren) :
        (Parsed /\ tokens = ChildrenInput(kinds)) =>
            IF SignatureLocalsCode(kinds)
            THEN /\ result.tag = "Ok"
                 /\ FirstFunction(result.value).params = ParamsOf(kinds)
                 /\ FirstFunction(result.value).results = ResultsOf(kinds)
                 /\ Len(FirstFunction(result.value).locals) = LocalsOf(kinds)
                 /\ FirstFunction(result.value).code = << >>
            ELSE result.tag = "Err"

\* The function with the children (param $b i64) (param $a i32) (code) has
\* been parsed: its parameters are b and a, in that order.
C25_TwoParamsParsed ==
    /\ Parsed
    /\ tokens = ChildrenInput(<<"param b", "param a", "code">>)
    /\ result.tag = "Ok"
    /\ FirstFunction(result.value).params
            = <<[name |-> <<"b">>, data_type |-> "I64"], [name |-> <<"a">>, data_type |-> "I32"]>>

----------------------------------------------------------------------------
(* The instructions of the table                                           *)

\* The instruction nodes of the inputs, whose names are these.
HasInstruction(iter, inst_name) ==
    \E k \in 1..(Len(iter) - 1) : iter[k] = LeftParen /\ iter[k + 1] = Symbol(inst_name)

\* C26: the parser is total: parse returns Ok or Err and never aborts.
\* Every registered instruction name, the atomic_rmw_* and atomic_cas names
\* among them, yields an Instruction or a ParseError, and a name that is not
\* registered yields 'Unknown instruction'.
C26_ParserTotal ==
    Parsed =>
        /\ result.tag \in {"Ok", "Err"}
        /\ HasInstruction(tokens, "nop") => (result.tag = "Err" /\ result.message = "Unknown instruction")

\* The function whose code is (i32.atomic_rmw_add (i32.imm 1) (i32.imm 2))
\* has been handed to parse, and parse has not returned: it has panicked at
\* the todo!() of the AtomicRmw arm.
C26_AtomicAborts ==
    /\ Parsed
    /\ tokens = CodeInput(Node("i32.atomic_rmw_add", Imm(1) \o Imm(2)))
    /\ result.tag = "Panic"
    /\ result.message = "not yet implemented"

----------------------------------------------------------------------------
(* The integer literals                                                    *)

Returned(function) == callee = function /\ result.tag # "Pending"

\* C27: for every value v of a u32, the decimal, the hexadecimal and the
\* binary spelling of v are accepted by parse_u32_string and yield v; and
\* likewise parse_u64_string for every value of a u64.
C27_EverySpellingAccepted ==
    /\ \A form \in IntegerForms, v \in U32Values :
            (Returned("parse_u32_string") /\ tokens = <<Number(form, Spelling(v, RadixOf(form)))>>)
                => (result.tag = "Ok" /\ result.value = v)
    /\ \A form \in IntegerForms, v \in U64Values :
            (Returned("parse_u64_string") /\ tokens = <<Number(form, Spelling(v, RadixOf(form)))>>)
                => (result.tag = "Ok" /\ result.value = v)

\* parse_u32_string has been called on the decimal literal 4294967295, which
\* is 2^32 - 1, and has returned an error.
C27_DecimalMaxRejected ==
    /\ Returned("parse_u32_string")
    /\ tokens = <<Number("Decimal", <<"4", "2", "9", "4", "9", "6", "7", "2", "9", "5">>)>>
    /\ tokens = <<Number("Decimal", Spelling(<<65535, 65535>>, 10))>>
    /\ result.tag = "Err"

----------------------------------------------------------------------------
(* The export of a function                                                *)

\* The functions among the elements of a parsed module.
FunctionsOf(module_node) ==
    {module_node.element_nodes[k] : k \in {j \in 1..Len(module_node.element_nodes) :
                                              module_node.element_nodes[j].node = "FunctionNode"}}

\* C29: in a FunctionNode the calling convention is Some only if the
\* function is exported, and the export name is Some only if the convention
\* is Some.
C29_ConventionOnlyIfExport ==
    (Parsed /\ result.tag = "Ok") =>
        \A function \in FunctionsOf(result.value) :
            /\ function.convention.tag = "Some" => function.export
            /\ function.export_name.tag = "Some" => function.convention.tag = "Some"

\* The function (function export "C" "add" $add (code)) has been parsed: it
\* is exported, with the convention C and the export name add.
C29_ExportedFunctionParsed ==
    /\ Parsed
    /\ tokens = MainModule(FunctionTokens(<<Symbol("export"), String_(<<"C">>), String_(<<"a", "d", "d">>)>>,
                                          <<"add">>, EmptyCode))
    /\ result.tag = "Ok"
    /\ FirstFunction(result.value).export
    /\ FirstFunction(result.value).convention = OptionSome(<<"C">>)
    /\ FirstFunction(result.value).export_name = OptionSome(<<"a", "d", "d">>)

----------------------------------------------------------------------------
(* The data items                                                          *)

\* The type that the data item of the tokens names: the symbol it begins
\* with, or bytes for the node (bytes ALIGN).
DataItemType(iter) ==
    IF iter # << >> /\ Head(iter).type = "Symbol" THEN Head(iter).text[1]
    ELSE IF Len(iter) > 1 /\ iter[2] = Symbol("bytes") THEN "bytes"
    ELSE "none"

\* C30: in the InitedData that parse_inited_data returns, length is
\* value.len().  An i32 or f32 item is the 4 little-endian bytes of the
\* number with align 4, an i64 or f64 item the 8 little-endian bytes with
\* align 8, a string item the UTF-8 bytes of the string with align 1, a
\* cstring item the UTF-8 bytes followed by exactly one 0 byte with align 1,
\* and a (bytes ALIGN) item the bytes of the byte token unchanged with the
\* given align.
C30_InitedDataLayout ==
    (Returned("parse_inited_data") /\ result.tag = "Ok") =>
        LET data == result.value
            type == DataItemType(tokens)
        IN /\ data.length = Len(data.value)
           /\ type \in {"i32", "f32"} => (data.length = 4 /\ data.align = <<4, 0, 0, 0>>)
           /\ type \in {"i64", "f64"} => (data.length = 8 /\ data.align = <<8, 0, 0, 0>>)
           /\ type \in {"string", "cstring"} => data.align = <<1, 0, 0, 0>>
           /\ type = "bytes" => (data.value = tokens[5].bytes
                                 /\ \E a \in {1, 2, 16} : tokens[3] = Decimal(a)
                                                           /\ data.align = <<a, 0, 0, 0>>)
           /\ tokens = <<Symbol("i32"), Number("Hex", <<"1", "0", "0", "0", "0">>)>>
                => data.value = <<0, 0, 1, 0>>
           /\ tokens = <<Symbol("i32"), Number("Decimal", <<"2", "5", "5">>)>>
                => data.value = <<255, 0, 0, 0>>
           /\ tokens = <<Symbol("i64"), Number("Hex", <<"1", "0", "0", "0", "0", "0", "0", "0", "0">>)>>
                => data.value = <<0, 0, 0, 0, 1, 0, 0, 0>>
           /\ tokens = <<Symbol("f32"), Number("Decimal", <<"1", ".", "0">>)>>
                => data.value = <<0, 0, 128, 63>>
           /\ tokens = <<Symbol("f64"), Number("Decimal", <<"-", "2", ".", "5">>)>>
                => data.value = <<0, 0, 0, 0, 0, 0, 4, 192>>
           /\ tokens = <<Symbol("f32"), Number("Decimal", <<"3", ".", "1", "4">>)>>
                => data.value = <<195, 245, 72, 64>>
           /\ tokens = <<Symbol("f64"), Number("Decimal", <<"1", "e", "5">>)>>
                => data.value = <<0, 0, 0, 0, 0, 106, 248, 64>>
           /\ tokens = <<Symbol("f64"), Number("Decimal", <<"i", "n", "f">>)>>
                => data.value = <<0, 0, 0, 0, 0, 0, 240, 127>>
           /\ tokens = <<Symbol("string"), String_(<<"H", "i", "!">>)>>
                => data.value = <<72, 105, 33>>
           /\ tokens = <<Symbol("string"), String_(<<"H", "U+4E2D">>)>>
                => data.value = <<72, 228, 184, 173>>
           /\ tokens = <<Symbol("cstring"), String_(<<"H", "i", "!">>)>>
                => data.value = <<72, 105, 33, 0>>
           /\ tokens = <<Symbol("cstring"), String_(<< >>)>> => data.value = <<0>>
           /\ tokens = <<Symbol("cstring"), String_(<<"U+00E9">>)>>
                => data.value = <<195, 169, 0>>

\* parse_inited_data has returned the item of i32 0x10000: four bytes, of
\* which the third is 1.
C30_I32ItemParsed ==
    /\ Returned("parse_inited_data")
    /\ tokens = <<Symbol("i32"), Number("Hex", <<"1", "0", "0", "0", "0">>)>>
    /\ result.tag = "Ok"
    /\ result.value.value = <<0, 0, 1, 0>>

----------------------------------------------------------------------------
(* codegen.rs: the data of a CodeGenerator (codegen.rs:150-187; the same   *)
(* code is in utils.rs:164-201)                                            *)

\* DataDescription::define, define_zeroinit and set_align of cranelift, as
\* define_inited_data and define_uninited_data call them (codegen.rs:159-160,
\* 178-179): each overwrites its field of the description.
define(description, data) ==
    [description EXCEPT !.init = "Bytes", !.contents = data, !.size = Len(data)]

define_zeroinit(description, size) ==
    [description EXCEPT !.init = "Zeros", !.contents = << >>, !.size = size]

set_align(description, align) == [description EXCEPT !.align = align]

\* Module::declare_data (codegen.rs:161-163, 180-182): a name that is new
\* gets a declaration without a definition; a name that is declared keeps
\* its declaration, writable if either declaration is.
Declared(declarations, name) == \E d \in declarations : d.name = name

declare_data(declarations, name, writable) ==
    IF Declared(declarations, name)
    THEN {IF d.name = name THEN [d EXCEPT !.writable = @ \/ writable] ELSE d : d \in declarations}
    ELSE declarations \cup {[name |-> name, writable |-> writable, defined |-> FALSE,
                             description |-> Cleared, own |-> Cleared]}

\* Module::define_data (codegen.rs:164, 183): Err(DuplicateDefinition) for a
\* name that has a definition; otherwise the data object is defined as the
\* description says.  `own` is the description that the arguments of this
\* call alone make.
Defined(declarations, name) == \E d \in declarations : d.name = name /\ d.defined

define_data(declarations, name, description, own) ==
    {IF d.name = name
     THEN [d EXCEPT !.defined = TRUE, !.description = description, !.own = own]
     ELSE d : d \in declarations}

\* The data the callers define: the names and contents of test_codegen_data
\* (codegen.rs:725-741) and a second alignment and size.
DataNames == {"number0", "number1"}

DataContents == {<<11, 0, 0, 0>>, <<13, 0, 0, 0>>}

DataAligns == {4, 8}

DataSizes == {4, 8}

\* The number of define_*_data calls of a caller.
MaxDefines == 3

\* The body of define_inited_data and define_uninited_data from set_align
\* on, for the description that define / define_zeroinit has filled and the
\* description `own` that the arguments make of a cleared one.  The `?` after
\* define_data returns its error at once, before clear().
DeclareAndDefine(name, filled, own, align, writable) ==
    LET description == set_align(filled, align)
        declarations == declare_data(module, name, writable)
    IN IF Defined(declarations, name)
       THEN /\ data_description' = description
            /\ module' = declarations
            /\ returned' = [tag |-> "Err", name |-> name]
       ELSE /\ data_description' = Cleared
            /\ module' = define_data(declarations, name, description, set_align(own, align))
            /\ returned' = [tag |-> "Ok", name |-> name]

\* DataDescription::define and define_zeroinit begin with
\* debug_assert_eq!(self.init, Init::Uninitialized): in a build with debug
\* assertions a call on a description that is not cleared panics.
DefinePanics == debug_assertions /\ data_description.init # "Uninitialized"

Panics(name) ==
    /\ returned' = [tag |-> "Panic", name |-> name]
    /\ UNCHANGED <<data_description, module>>

\* define_inited_data (codegen.rs:150-168).
DefineInitedData ==
    /\ defines < MaxDefines
    /\ returned.tag # "Panic"
    /\ \E name \in DataNames, data \in DataContents, align \in DataAligns, writable \in BOOLEAN :
            IF DefinePanics
            THEN Panics(name)
            ELSE DeclareAndDefine(name, define(data_description, data), define(Cleared, data),
                                  align, writable)
    /\ defines' = defines + 1
    /\ UNCHANGED debug_assertions
    /\ UNCHANGED <<encoderVars, parserVars, syntaxVars>>

\* define_uninited_data (codegen.rs:170-187).
DefineUninitedData ==
    /\ defines < MaxDefines
    /\ returned.tag # "Panic"
    /\ \E name \in DataNames, size \in DataSizes, align \in DataAligns :
            IF DefinePanics
            THEN Panics(name)
            ELSE DeclareAndDefine(name, define_zeroinit(data_description, size),
                                  define_zeroinit(Cleared, size), align, TRUE)
    /\ defines' = defines + 1
    /\ UNCHANGED debug_assertions
    /\ UNCHANGED <<encoderVars, parserVars, syntaxVars>>

\* A new code generator, in a build with debug assertions or without.
InitCodegen ==
    /\ EncoderAtRest
    /\ ParserAtRest
    /\ SyntaxAtRest
    /\ data_description = Cleared
    /\ module = {}
    /\ returned = NotCalled
    /\ defines = 0
    /\ debug_assertions \in BOOLEAN

NextCodegen == DefineInitedData \/ DefineUninitedData

SpecCodegen == InitCodegen /\ [][NextCodegen]_vars

\* C28: after every call of define_inited_data or define_uninited_data has
\* returned, with Ok or with Err, data_description is cleared; so each data
\* object is defined with only its own contents and alignment.
C28_DescriptionCleared ==
    /\ returned.tag \in {"Ok", "Err"} => data_description = Cleared
    /\ \A d \in module : d.defined => d.description = d.own

\* define_inited_data has returned Err for a name that was defined before,
\* and the generator's description still holds the contents of that call.
C28_ErrLeavesDescription ==
    /\ returned.tag = "Err"
    /\ Defined(module, returned.name)
    /\ data_description.init = "Bytes"
    /\ data_description # Cleared

====
